---------------------------- MODULE Spec2Model ----------------------------
(***************************************************************************)
(* The Observer Effect: the page script exhibition_js_v2.js ("v2") and the *)
(* older script of the same page (src/unnamed/part_000, "v1").             *)
(*                                                                         *)
(* The page is one single-threaded event loop.  Every action below is one  *)
(* event-loop turn: a handler, a timer callback, or the part of an async   *)
(* function between two awaits.  The JavaScript objects `state` and        *)
(* `elements` are the record-valued variables of the same names; the       *)
(* promises in flight and the timers are the remaining variables.          *)
(*                                                                         *)
(* Outside the model: the wave canvas, the blinking and the waveform       *)
(* drawing (they write only state.waves, styles and canvases), and         *)
(* state.startTime / state.lastActivity (written, read only by the clock   *)
(* display).                                                               *)
(***************************************************************************)
EXTENDS Integers, Sequences, FiniteSets, TLC

(***************************************************************************)
(* Bounds of the model (not program constants).                            *)
(***************************************************************************)
\* Spec: the events in a run beside the page load, the model load and the
\* consent and media sequence: input events, timer firings, clock ticks,
\* colour-analysis passes, completed detector calls, the IP lookup's answer
MaxEvents == 1
\* SpecVision: colour-analysis passes (firings of the 2 s interval) in a run
MaxPasses == 2
\* SpecVision: completed detector calls (resolved or thrown) in a run
MaxPolls == 2
\* SpecLog: the clock values 0..MaxClock that a timestamp can carry
MaxClock == 1
\* SpecLog: the history length up to which the page is clicked
MaxLogObs == 53
\* SpecFrame: detector results, colour passes and input events in a run
MaxTurns == 2
\* SpecColor: the steps into which the channel range 0..255 is divided
ChannelLevels == 15
\* SpecGaze: how many pixels the nose lies from the box centre, each way
MaxOffset == 21
\* SpecAverage: the pixels of the longest sampled buffer
MaxPixels == 3
\* SpecInput: mouse moves, scrolls and clicks in a run
MaxMoves == 51
MaxScrolls == 6
MaxClicks == 1
\* SpecIP: the characters of the longest sampled address
MaxAddress == 5

(***************************************************************************)
(* Program constants.                                                      *)
(***************************************************************************)
\* while (elements.logEntries.children.length > 50)
LogCap == 50
\* state.detectionCanvas.width = elements.webcam.videoWidth || 640
DefaultCanvasWidth == 640
\* state.detectionCanvas.height = elements.webcam.videoHeight || 480
DefaultCanvasHeight == 480
\* if (state.mouseMovements % 50 === 0)
MouseSample == 50
\* if (state.scrolls % 5 === 0)
ScrollSample == 5

\* JavaScript null, for the string-valued fields
NULL == "null"

\* F(v) with v evaluated once, as a const declaration evaluates its initialiser
With(F(_), v) == CHOOSE result \in {F(x) : x \in {v}} : TRUE

Max(a, b) == IF a >= b THEN a ELSE b
Min(a, b) == IF a <= b THEN a ELSE b

(***************************************************************************)
(* Numbers.  The script computes in IEEE doubles; the model computes the   *)
(* same quantities as exact fractions n/d with d > 0 and compares them by  *)
(* cross-multiplication.  A double differs from its fraction by rounding   *)
(* only, which a comparison with a threshold can see only for an input     *)
(* whose fraction equals the threshold (l = 0.2 for max + min = 102, h =   *)
(* 30 for 2 (g - b) = max - min, ...): there the model decides by the      *)
(* fraction, the script by the rounded double.  NaN is a flag: every       *)
(* comparison with NaN is false, as in JavaScript.                         *)
(***************************************************************************)
\* n/d < pn/pd, for d > 0 and pd > 0
FracLt(n, d, pn, pd) == n * pd < pn * d
\* n/d > pn/pd
FracGt(n, d, pn, pd) == n * pd > pn * d
\* Math.round(n/d) for n >= 0, d > 0: ties go up
MathRound(n, d) == (2 * n + d) \div (2 * d)
\* the conversion of a non-negative double n/d to a long (truncation),
\* as the canvas API converts the arguments of getImageData
ToLong(n, d) == n \div d

(***************************************************************************)
(* rgbToHsl (v2 683-704).  h is in degrees (h * 360 in the source).        *)
(* A NaN channel makes max, min and l NaN; max === min is then false, s is *)
(* NaN and no case of the switch matches, so h is undefined * 360 = NaN.   *)
(***************************************************************************)
\* variant: without (g < b ? 6 : 0) in the case max === r
rgbToHsl_noWrap(r, g, b, nan) ==
    IF nan
    THEN [nan |-> TRUE, hn |-> 0, hd |-> 1, sn |-> 0, sd |-> 1, ln |-> 0, ld |-> 1]
    ELSE
    LET max == Max(r, Max(g, b))
        min == Min(r, Min(g, b))
        d   == max - min
    IN  IF max = min
        THEN [nan |-> FALSE, hn |-> 0, hd |-> 1, sn |-> 0, sd |-> 1,
              ln |-> max + min, ld |-> 510]
        ELSE [nan |-> FALSE,
              hn |-> IF max = r THEN 60 * (g - b)
                     ELSE IF max = g THEN 60 * (b - r) + 120 * d
                     ELSE 60 * (r - g) + 240 * d,
              hd |-> d,
              sn |-> d,
              sd |-> IF max + min > 255 THEN 510 - max - min ELSE max + min,
              ln |-> max + min, ld |-> 510]

rgbToHsl(r, g, b, nan) ==
    IF nan
    THEN [nan |-> TRUE, hn |-> 0, hd |-> 1, sn |-> 0, sd |-> 1, ln |-> 0, ld |-> 1]
    ELSE
    LET max == Max(r, Max(g, b))
        min == Min(r, Min(g, b))
        d   == max - min
    IN  IF max = min
        THEN [nan |-> FALSE, hn |-> 0, hd |-> 1, sn |-> 0, sd |-> 1,
              ln |-> max + min, ld |-> 510]
        ELSE [nan |-> FALSE,
              hn |-> IF max = r THEN 60 * (g - b) + (IF g < b THEN 360 * d ELSE 0)
                     ELSE IF max = g THEN 60 * (b - r) + 120 * d
                     ELSE 60 * (r - g) + 240 * d,
              hd |-> d,
              sn |-> d,
              sd |-> IF max + min > 255 THEN 510 - max - min ELSE max + min,
              ln |-> max + min, ld |-> 510]

(***************************************************************************)
(* getDominantColor (v2 622-637).  pixels is the flat RGBA buffer.  With   *)
(* no pixels count is 0 and every channel is Math.round(0/0) = NaN.        *)
(***************************************************************************)
RECURSIVE ChannelSum(_, _, _)
ChannelSum(pixels, i, off) ==
    IF i > Len(pixels) THEN 0
    ELSE pixels[i + off] + ChannelSum(pixels, i + 4, off)

\* variant: Math.floor in place of Math.round
getDominantColor_floor(pixels) ==
    LET count == (Len(pixels) + 3) \div 4
    IN  IF count = 0
        THEN [nan |-> TRUE, r |-> 0, g |-> 0, b |-> 0]
        ELSE [nan |-> FALSE,
              r |-> ChannelSum(pixels, 1, 0) \div count,
              g |-> ChannelSum(pixels, 1, 1) \div count,
              b |-> ChannelSum(pixels, 1, 2) \div count]

getDominantColor(pixels) ==
    LET count == (Len(pixels) + 3) \div 4
    IN  IF count = 0
        THEN [nan |-> TRUE, r |-> 0, g |-> 0, b |-> 0]
        ELSE [nan |-> FALSE,
              r |-> MathRound(ChannelSum(pixels, 1, 0), count),
              g |-> MathRound(ChannelSum(pixels, 1, 1), count),
              b |-> MathRound(ChannelSum(pixels, 1, 2), count)]

(***************************************************************************)
(* The three classifiers (v2 639-681).                                     *)
(***************************************************************************)
\* variant: the saturation rule tested before the lightness rule
classifyEyeColor_grayFirst(color) ==
    LET ofRgb(rgb) ==
          LET ofHsl(hsl) ==
                LET lLt(pn, pd) == ~hsl.nan /\ FracLt(hsl.ln, hsl.ld, pn, pd)
                    lGt(pn, pd) == ~hsl.nan /\ FracGt(hsl.ln, hsl.ld, pn, pd)
                    sLt(pn, pd) == ~hsl.nan /\ FracLt(hsl.sn, hsl.sd, pn, pd)
                    hIn(lo, hi) == ~hsl.nan /\ ~FracLt(hsl.hn, hsl.hd, lo, 1)
                                            /\ ~FracGt(hsl.hn, hsl.hd, hi, 1)
                IN  IF sLt(15, 100) THEN (IF lLt(4, 10) THEN "DARK GRAY" ELSE "GRAY")
                    ELSE IF lLt(20, 100) THEN "DARK BROWN"
                    ELSE IF hIn(180, 260)
                         THEN (IF lLt(4, 10) THEN "DARK BLUE"
                               ELSE IF lGt(6, 10) THEN "LIGHT BLUE" ELSE "BLUE")
                    ELSE IF hIn(80, 160)
                         THEN (IF 10 * rgb.b > 7 * rgb.g THEN "HAZEL" ELSE "GREEN")
                    ELSE IF hIn(20, 50)
                         THEN (IF lGt(5, 10) THEN "AMBER"
                               ELSE IF lGt(35, 100) THEN "LIGHT BROWN" ELSE "BROWN")
                    ELSE "BROWN"
          IN  With(ofHsl, rgbToHsl(rgb.r, rgb.g, rgb.b, rgb.nan))
    IN  With(ofRgb, color)

classifyEyeColor(color) ==
    LET ofRgb(rgb) ==
          LET ofHsl(hsl) ==
                LET lLt(pn, pd) == ~hsl.nan /\ FracLt(hsl.ln, hsl.ld, pn, pd)
                    lGt(pn, pd) == ~hsl.nan /\ FracGt(hsl.ln, hsl.ld, pn, pd)
                    sLt(pn, pd) == ~hsl.nan /\ FracLt(hsl.sn, hsl.sd, pn, pd)
                    hIn(lo, hi) == ~hsl.nan /\ ~FracLt(hsl.hn, hsl.hd, lo, 1)
                                            /\ ~FracGt(hsl.hn, hsl.hd, hi, 1)
                IN  IF lLt(20, 100) THEN "DARK BROWN"
                    ELSE IF sLt(15, 100) THEN (IF lLt(4, 10) THEN "DARK GRAY" ELSE "GRAY")
                    ELSE IF hIn(180, 260)
                         THEN (IF lLt(4, 10) THEN "DARK BLUE"
                               ELSE IF lGt(6, 10) THEN "LIGHT BLUE" ELSE "BLUE")
                    ELSE IF hIn(80, 160)
                         THEN (IF 10 * rgb.b > 7 * rgb.g THEN "HAZEL" ELSE "GREEN")
                    ELSE IF hIn(20, 50)
                         THEN (IF lGt(5, 10) THEN "AMBER"
                               ELSE IF lGt(35, 100) THEN "LIGHT BROWN" ELSE "BROWN")
                    ELSE "BROWN"
          IN  With(ofHsl, rgbToHsl(rgb.r, rgb.g, rgb.b, rgb.nan))
    IN  With(ofRgb, color)

\* variant: BLONDE tested before GRAY/WHITE
classifyHairColor_blondeFirst(color) ==
    LET ofRgb(rgb) ==
          LET ofHsl(hsl) ==
                LET lLt(pn, pd) == ~hsl.nan /\ FracLt(hsl.ln, hsl.ld, pn, pd)
                    lGt(pn, pd) == ~hsl.nan /\ FracGt(hsl.ln, hsl.ld, pn, pd)
                    sLt(pn, pd) == ~hsl.nan /\ FracLt(hsl.sn, hsl.sd, pn, pd)
                    sGt(pn, pd) == ~hsl.nan /\ FracGt(hsl.sn, hsl.sd, pn, pd)
                    hIn(lo, hi) == ~hsl.nan /\ ~FracLt(hsl.hn, hsl.hd, lo, 1)
                                            /\ ~FracGt(hsl.hn, hsl.hd, hi, 1)
                IN  IF lLt(15, 100) THEN "BLACK"
                    ELSE IF lLt(25, 100) THEN "DARK BROWN"
                    ELSE IF lGt(6, 10) THEN "BLONDE"
                    ELSE IF lGt(7, 10) /\ sLt(3, 10) THEN "GRAY/WHITE"
                    ELSE IF hIn(0, 30) /\ sGt(3, 10) THEN "RED/AUBURN"
                    ELSE IF lLt(4, 10) THEN "BROWN"
                    ELSE "LIGHT BROWN"
          IN  With(ofHsl, rgbToHsl(rgb.r, rgb.g, rgb.b, rgb.nan))
    IN  With(ofRgb, color)

classifyHairColor(color) ==
    LET ofRgb(rgb) ==
          LET ofHsl(hsl) ==
                LET lLt(pn, pd) == ~hsl.nan /\ FracLt(hsl.ln, hsl.ld, pn, pd)
                    lGt(pn, pd) == ~hsl.nan /\ FracGt(hsl.ln, hsl.ld, pn, pd)
                    sLt(pn, pd) == ~hsl.nan /\ FracLt(hsl.sn, hsl.sd, pn, pd)
                    sGt(pn, pd) == ~hsl.nan /\ FracGt(hsl.sn, hsl.sd, pn, pd)
                    hIn(lo, hi) == ~hsl.nan /\ ~FracLt(hsl.hn, hsl.hd, lo, 1)
                                            /\ ~FracGt(hsl.hn, hsl.hd, hi, 1)
                IN  IF lLt(15, 100) THEN "BLACK"
                    ELSE IF lLt(25, 100) THEN "DARK BROWN"
                    ELSE IF lGt(7, 10) /\ sLt(3, 10) THEN "GRAY/WHITE"
                    ELSE IF lGt(6, 10) THEN "BLONDE"
                    ELSE IF hIn(0, 30) /\ sGt(3, 10) THEN "RED/AUBURN"
                    ELSE IF lLt(4, 10) THEN "BROWN"
                    ELSE "LIGHT BROWN"
          IN  With(ofHsl, rgbToHsl(rgb.r, rgb.g, rgb.b, rgb.nan))
    IN  With(ofRgb, color)

\* variant: the hue buckets tested before the saturation rule
classifyBackgroundColor_hueFirst(color) ==
    LET ofRgb(rgb) ==
          LET ofHsl(hsl) ==
                LET lLt(pn, pd) == ~hsl.nan /\ FracLt(hsl.ln, hsl.ld, pn, pd)
                    lGt(pn, pd) == ~hsl.nan /\ FracGt(hsl.ln, hsl.ld, pn, pd)
                    sLt(pn, pd) == ~hsl.nan /\ FracLt(hsl.sn, hsl.sd, pn, pd)
                    hLt(p)      == ~hsl.nan /\ FracLt(hsl.hn, hsl.hd, p, 1)
                IN  IF hLt(30) THEN "WARM TONES"
                    ELSE IF hLt(90) THEN "YELLOW/GREEN"
                    ELSE IF hLt(150) THEN "GREEN/CYAN"
                    ELSE IF hLt(210) THEN "BLUE"
                    ELSE IF hLt(270) THEN "PURPLE"
                    ELSE IF hLt(330) THEN "PINK/MAGENTA"
                    ELSE IF sLt(1, 10)
                    THEN (IF lLt(3, 10) THEN "DARK"
                          ELSE IF lGt(7, 10) THEN "LIGHT" ELSE "NEUTRAL")
                    ELSE "RED/WARM"
          IN  With(ofHsl, rgbToHsl(rgb.r, rgb.g, rgb.b, rgb.nan))
    IN  With(ofRgb, color)

classifyBackgroundColor(color) ==
    LET ofRgb(rgb) ==
          LET ofHsl(hsl) ==
                LET lLt(pn, pd) == ~hsl.nan /\ FracLt(hsl.ln, hsl.ld, pn, pd)
                    lGt(pn, pd) == ~hsl.nan /\ FracGt(hsl.ln, hsl.ld, pn, pd)
                    sLt(pn, pd) == ~hsl.nan /\ FracLt(hsl.sn, hsl.sd, pn, pd)
                    hLt(p)      == ~hsl.nan /\ FracLt(hsl.hn, hsl.hd, p, 1)
                IN  IF sLt(1, 10)
                    THEN (IF lLt(3, 10) THEN "DARK"
                          ELSE IF lGt(7, 10) THEN "LIGHT" ELSE "NEUTRAL")
                    ELSE IF hLt(30) THEN "WARM TONES"
                    ELSE IF hLt(90) THEN "YELLOW/GREEN"
                    ELSE IF hLt(150) THEN "GREEN/CYAN"
                    ELSE IF hLt(210) THEN "BLUE"
                    ELSE IF hLt(270) THEN "PURPLE"
                    ELSE IF hLt(330) THEN "PINK/MAGENTA"
                    ELSE "RED/WARM"
          IN  With(ofHsl, rgbToHsl(rgb.r, rgb.g, rgb.b, rgb.nan))
    IN  With(ofRgb, color)

\* variant: the brightness thresholds compared with <=
environmentOf_inclusive(color) ==
    LET sum == color.r + color.g + color.b
    IN  IF ~color.nan /\ sum <= 3 * 50 THEN "DARK ENVIRONMENT"
        ELSE IF ~color.nan /\ sum <= 3 * 100 THEN "DIM LIGHTING"
        ELSE IF ~color.nan /\ sum <= 3 * 180 THEN "NORMAL LIGHTING"
        ELSE "BRIGHT ENVIRONMENT"

\* the brightness bucket of analyzeBackground (v2 603-610):
\* brightness = (r + g + b) / 3, NaN for a NaN colour
environmentOf(color) ==
    LET sum == color.r + color.g + color.b
    IN  IF ~color.nan /\ sum < 3 * 50 THEN "DARK ENVIRONMENT"
        ELSE IF ~color.nan /\ sum < 3 * 100 THEN "DIM LIGHTING"
        ELSE IF ~color.nan /\ sum < 3 * 180 THEN "NORMAL LIGHTING"
        ELSE "BRIGHT ENVIRONMENT"


(***************************************************************************)
(* Inputs.                                                                 *)
(***************************************************************************)
\* the two scripts of the page
Scripts == {"v1", "v2"}

\* what elements.webcam reports as videoWidth x videoHeight when the
\* metadata is loaded: not yet known (0), or 640 x 480
VideoDims == {[w |-> 0, h |-> 0], [w |-> 640, h |-> 480]}

Pt(x, y) == [x |-> x, y |-> y]

\* Results of faceapi.detectSingleFace(...).withFaceLandmarks(true): the
\* bounding box and the landmark groups the script reads.  Frame pixels.
\*   1: nose at the box centre            2: nose 10% of the width left
\*   3: a box of width 0, nose 15% low    4: as 1, the box 20 px from the top
Faces == <<
    [box |-> [x |-> 200, y |-> 100, width |-> 200, height |-> 200],
     leftEye |-> <<Pt(255, 170), Pt(265, 170)>>,
     rightEye |-> <<Pt(335, 170), Pt(345, 170)>>,
     nose |-> <<Pt(298, 198), Pt(302, 202)>>],
    [box |-> [x |-> 200, y |-> 100, width |-> 200, height |-> 200],
     leftEye |-> <<Pt(245, 170), Pt(255, 170)>>,
     rightEye |-> <<Pt(325, 170), Pt(335, 170)>>,
     nose |-> <<Pt(278, 198), Pt(282, 202)>>],
    [box |-> [x |-> 300, y |-> 100, width |-> 0, height |-> 200],
     leftEye |-> <<Pt(299, 170), Pt(301, 170)>>,
     rightEye |-> <<Pt(300, 170), Pt(302, 170)>>,
     nose |-> <<Pt(300, 228), Pt(300, 232)>>],
    [box |-> [x |-> 200, y |-> 20, width |-> 200, height |-> 200],
     leftEye |-> <<Pt(255, 90), Pt(265, 90)>>,
     rightEye |-> <<Pt(335, 90), Pt(345, 90)>>,
     nose |-> <<Pt(298, 118), Pt(302, 122)>>]
  >>

\* state.lastFaceDetection: an index into Faces, NoFace for null
NoFace == 0
FaceIds == 1..Len(Faces)

\* What the camera shows during one colour-analysis pass: the RGBA bytes
\* that each getImageData call of the pass returns (two pixels each; the
\* content of a region is the camera's, whatever the rectangle).
Px(r, g, b) == <<r, g, b, 255>>
Scenes == {
    \* a dark room
    [eye |-> Px(10, 10, 10) \o Px(12, 12, 12), hair |-> Px(10, 10, 10) \o Px(12, 12, 12),
     left |-> Px(10, 10, 10), right |-> Px(12, 12, 12)],
    \* daylight, blue eyes, light brown hair, white wall
    [eye |-> Px(60, 90, 200) \o Px(70, 100, 210), hair |-> Px(200, 170, 90) \o Px(210, 180, 100),
     left |-> Px(250, 250, 250), right |-> Px(240, 240, 240)],
    \* the same face in front of a grey wall
    [eye |-> Px(60, 90, 200) \o Px(70, 100, 210), hair |-> Px(200, 170, 90) \o Px(210, 180, 100),
     left |-> Px(130, 130, 130), right |-> Px(120, 120, 120)]
  }

\* e.clientX, e.clientY of a mouse event
MousePositions == {Pt(0, 0), Pt(1, 0)}

\* The JSON of the IP lookup.  ip is the address as a sequence of
\* characters, <<>> when the field is missing; city is "" when missing.
IPData == {
    [ip |-> <<"9", ".", "8", ".", "7", ".", "6">>, city |-> "Eugene",
     region |-> "Oregon", country_name |-> "United States"],
    [ip |-> <<"a", ":", ":", "b">>, city |-> "", region |-> "", country_name |-> ""]
  }

VARIABLES
    script,          \* which of the two scripts the page runs
    page,            \* "loading" until DOMContentLoaded has run, then "ready"
    state,           \* the script's `state` object
    elements,        \* the DOM the script reads and writes
    faceApi,         \* initFaceApi: "idle", "loading", "loaded", "failed"
    ipFetch,         \* fetchIPInfo: "idle", "pending", "done"
    media,           \* requestMediaAccess / requestCamera: "idle", "camera",
                     \*   "microphone", "done"
    video,           \* elements.webcam: "none", "loading" (srcObject set,
                     \*   loadedmetadata to come), "playing"
    detectLoop,      \* detectFace: "off", "raf" (requestAnimationFrame
                     \*   pending), "timeout" (setTimeout pending),
                     \*   "detecting" (awaiting the detector)
    colorIntervals,  \* number of setInterval(analyzeColors, 2000) timers
    clock,           \* the time of day that new Date() reads
    lastOp,          \* history: the turn that led to this state, with what a
                     \*   colour pass or a detection computed in it
    used             \* history: the events of the unbounded sources so far,
                     \*   and the passes, detector calls and faces among them

\* the history counters stop counting at the largest bound that reads them
CountCap == Max(Max(MaxEvents, MaxTurns), Max(MaxPasses, MaxPolls))
Counted(n) == IF n < CountCap THEN n + 1 ELSE n

vars == <<script, page, state, elements, faceApi, ipFetch, media, video,
          detectLoop, colorIntervals, clock, lastOp, used>>

NoCanvas == [created |-> FALSE, width |-> 0, height |-> 0]
NoRect == [x |-> 0, y |-> 0, w |-> 0, h |-> 0]

\* the record kept in lastOp for a turn named op
Op(op) == [op |-> op, eyeRegion |-> NoRect, hairRegion |-> NoRect,
           eye |-> NULL, hair |-> NULL, background |-> NULL,
           direction |-> NULL, face |-> NoFace, outcome |-> ""]

\* the pair the helpers below transform
World == [s |-> state, e |-> elements]

(***************************************************************************)
(* addObservation (v2 842-859, v1 749-769).                                *)
(***************************************************************************)
\* variant: evicting the newest child (removeChild(lastChild)) when over cap
removeWhileOver_lastChild(children, cap) ==
    IF Len(children) > cap THEN SubSeq(children, 1, cap) ELSE children

RECURSIVE removeWhileOver(_, _)
removeWhileOver(children, cap) ==
    IF Len(children) > cap THEN removeWhileOver(Tail(children), cap) ELSE children

\* variant: state.observations.unshift(entry) in place of push
addObservation_unshift(W, type, message) ==
    LET entry == [timestamp |-> clock, type |-> type, message |-> message]
    IN  [W EXCEPT !.e.logEntries = removeWhileOver(Append(@, entry), LogCap),
                  !.s.observations = <<entry>> \o @]

addObservation(W, type, message) ==
    LET entry == [timestamp |-> clock, type |-> type, message |-> message]
    IN  [W EXCEPT !.e.logEntries = removeWhileOver(Append(@, entry), LogCap),
                  !.s.observations = Append(@, entry)]

\* updateTicker (v2 861-864): the first ticker item is the message
updateTicker(W, message) == [W EXCEPT !.e.ticker = message]


(***************************************************************************)
(* Gaze (v2 350-399, v1 270-301).                                          *)
(***************************************************************************)
RECURSIVE SumOf(_, _)
SumOf(points, f) ==
    IF points = <<>> THEN 0 ELSE Head(points)[f] + SumOf(Tail(points), f)

\* getCenterPoint: the mean point, kept as the fractions xn/n and yn/n
getCenterPoint(points) ==
    [xn |-> SumOf(points, "x"), yn |-> SumOf(points, "y"), n |-> Len(points)]

\* variant: horizontal starts empty, 'CENTER' left to the caller's fallback
gazeOf_emptyCenter(nose, faceBox) ==
    LET numX == 2 * nose.xn - nose.n * (2 * faceBox.x + faceBox.width)
        denX == 2 * nose.n * faceBox.width
        numY == 2 * nose.yn - nose.n * (2 * faceBox.y + faceBox.height)
        denY == 2 * nose.n * faceBox.height
        horizontal == IF 100 * numX < -5 * denX THEN "LEFT"
                      ELSE IF 100 * numX > 5 * denX THEN "RIGHT"
                      ELSE ""
        vertical == IF 10 * numY < -denY THEN "UP-"
                    ELSE IF 10 * numY > denY THEN "DOWN-"
                    ELSE ""
    IN  vertical \o horizontal

\* variant: the thresholds compared with <= and >=
gazeOf_inclusive(nose, faceBox) ==
    LET numX == 2 * nose.xn - nose.n * (2 * faceBox.x + faceBox.width)
        denX == 2 * nose.n * faceBox.width
        numY == 2 * nose.yn - nose.n * (2 * faceBox.y + faceBox.height)
        denY == 2 * nose.n * faceBox.height
        horizontal == IF 100 * numX <= -5 * denX THEN "LEFT"
                      ELSE IF 100 * numX >= 5 * denX THEN "RIGHT"
                      ELSE "CENTER"
        vertical == IF 10 * numY <= -denY THEN "UP-"
                    ELSE IF 10 * numY >= denY THEN "DOWN-"
                    ELSE ""
    IN  vertical \o horizontal

\* The direction estimateGaze computes.  With c = faceBox centre,
\*   offsetX = (nose.x - c.x) / width = numX / denX,
\*   numX = 2 nose.xn - n (2 x + width),  denX = 2 n width   (n = nose.n)
\* and likewise offsetY.  For width = 0 the double is -Infinity, NaN or
\* +Infinity by the sign of numX, and the cross-multiplied comparisons
\* give the same answers (boxes have width, height >= 0).
gazeOf(nose, faceBox) ==
    LET numX == 2 * nose.xn - nose.n * (2 * faceBox.x + faceBox.width)
        denX == 2 * nose.n * faceBox.width
        numY == 2 * nose.yn - nose.n * (2 * faceBox.y + faceBox.height)
        denY == 2 * nose.n * faceBox.height
        horizontal == IF 100 * numX < -5 * denX THEN "LEFT"
                      ELSE IF 100 * numX > 5 * denX THEN "RIGHT"
                      ELSE "CENTER"
        vertical == IF 10 * numY < -denY THEN "UP-"
                    ELSE IF 10 * numY > denY THEN "DOWN-"
                    ELSE ""
    IN  vertical \o horizontal

\* variant: comparing the direction with the literal 'CENTER' in place of
\* state.gazeDirection
estimateGaze_literal(W, leftEye, rightEye, nose, faceBox) ==
    LET direction == gazeOf(nose, faceBox)
    IN  [world |-> IF direction # "CENTER"
                   THEN addObservation(W, "GAZE", "Subject looking " \o direction)
                   ELSE W,
         direction |-> IF direction = "" THEN "CENTER" ELSE direction]

\* estimateGaze: logs a change against state.gazeDirection and returns
\* direction || 'CENTER'
estimateGaze(W, leftEye, rightEye, nose, faceBox) ==
    LET direction == gazeOf(nose, faceBox)
    IN  [world |-> IF direction # W.s.gazeDirection
                   THEN addObservation(W, "GAZE", "Subject looking " \o direction)
                   ELSE W,
         direction |-> IF direction = "" THEN "CENTER" ELSE direction]

processFaceDetection(W, detection) ==
    LET leftEyeCenter  == getCenterPoint(detection.leftEye)
        rightEyeCenter == getCenterPoint(detection.rightEye)
        noseCenter     == getCenterPoint(detection.nose)
        r == estimateGaze(W, leftEyeCenter, rightEyeCenter, noseCenter, detection.box)
    IN  [r.world EXCEPT !.s.gazeDirection = r.direction,
                        !.e.userGaze = r.direction]

\* the body of detectFace after the await resolved with face (v2 327-333)
detectionResult(W, face) ==
    IF face # NoFace
    THEN processFaceDetection([W EXCEPT !.s.lastFaceDetection = face], Faces[face])
    ELSE [W EXCEPT !.e.userGaze = "FACE NOT DETECTED"]

\* the first statement of detectFace (v2 316-319): where the loop is after
\* the synchronous part of one call
detectFace(W) ==
    IF ~W.s.webcamActive \/ W.e.videoWidth = 0 THEN "raf" ELSE "detecting"

(***************************************************************************)
(* Colour analysis (v2 521-620).                                           *)
(***************************************************************************)
\* the fixed fractional regions sampled when no detection is stored
\* (v2 548-550 and 578), as the longs getImageData converts them to
eyeFallbackRegion(canvas) ==
    [x |-> ToLong(35 * canvas.width, 100), y |-> ToLong(3 * canvas.height, 10),
     w |-> ToLong(3 * canvas.width, 10), h |-> ToLong(canvas.height, 10)]

hairFallbackRegion(canvas) ==
    [x |-> ToLong(25 * canvas.width, 100), y |-> ToLong(5 * canvas.height, 100),
     w |-> ToLong(5 * canvas.width, 10), h |-> ToLong(15 * canvas.height, 100)]

\* the rectangle analyzeEyeColor passes to getImageData
eyeRegion(s) ==
    IF s.lastFaceDetection # NoFace
    THEN LET eyeCenter == getCenterPoint(Faces[s.lastFaceDetection].leftEye)
         IN  [x |-> ToLong(Max(0, eyeCenter.xn - 10 * eyeCenter.n), eyeCenter.n),
              y |-> ToLong(Max(0, eyeCenter.yn - 5 * eyeCenter.n), eyeCenter.n),
              w |-> 20, h |-> 10]
    ELSE eyeFallbackRegion(s.detectionCanvas)

\* the rectangle analyzeHairColor passes to getImageData
hairRegion(s) ==
    IF s.lastFaceDetection # NoFace
    THEN LET box == Faces[s.lastFaceDetection].box
         IN  [x |-> Max(0, box.x), y |-> Max(0, box.y - 50),
              w |-> box.width, h |-> 40]
    ELSE hairFallbackRegion(s.detectionCanvas)

\* the two rectangles of analyzeBackground
leftEdgeRegion(s) ==
    LET w == s.detectionCanvas.width
        h == s.detectionCanvas.height
    IN  [x |-> 0, y |-> ToLong(2 * h, 10), w |-> ToLong(15 * w, 100), h |-> ToLong(6 * h, 10)]

rightEdgeRegion(s) ==
    LET w == s.detectionCanvas.width
        h == s.detectionCanvas.height
    IN  [x |-> ToLong(85 * w, 100), y |-> ToLong(2 * h, 10),
         w |-> ToLong(15 * w, 100), h |-> ToLong(6 * h, 10)]

\* CanvasRenderingContext2D.getImageData throws IndexSizeError when the
\* width or the height is zero
getImageDataThrows(rect) == rect.w = 0 \/ rect.h = 0

\* variant: logging the eye colour in every pass, changed or not
analyzeEyeColor_everyPass(W, data) ==
    LET dominantColor == getDominantColor(data)
        report(eyeColorName) ==
            addObservation([W EXCEPT !.s.eyeColor = eyeColorName,
                                     !.e.userEyeColor = eyeColorName],
                           "AI", "Eye color detected: " \o eyeColorName)
    IN  With(report, classifyEyeColor(dominantColor))

analyzeEyeColor(W, data) ==
    LET dominantColor == getDominantColor(data)
        report(eyeColorName) ==
            IF eyeColorName # W.s.eyeColor
            THEN addObservation([W EXCEPT !.s.eyeColor = eyeColorName,
                                          !.e.userEyeColor = eyeColorName],
                                "AI", "Eye color detected: " \o eyeColorName)
            ELSE W
    IN  With(report, classifyEyeColor(dominantColor))

\* variant: a hair-colour report also forgets the stored detection
analyzeHairColor_forgetsFace(W, data) ==
    LET dominantColor == getDominantColor(data)
        report(hairColorName) ==
            IF hairColorName # W.s.hairColor
            THEN addObservation([W EXCEPT !.s.hairColor = hairColorName,
                                          !.s.lastFaceDetection = NoFace,
                                          !.e.userHairColor = hairColorName],
                                "AI", "Hair color detected: " \o hairColorName)
            ELSE W
    IN  With(report, classifyHairColor(dominantColor))

analyzeHairColor(W, data) ==
    LET dominantColor == getDominantColor(data)
        report(hairColorName) ==
            IF hairColorName # W.s.hairColor
            THEN addObservation([W EXCEPT !.s.hairColor = hairColorName,
                                          !.e.userHairColor = hairColorName],
                                "AI", "Hair color detected: " \o hairColorName)
            ELSE W
    IN  With(report, classifyHairColor(dominantColor))

\* variant: the colour name taken from the first pixel, the brightness from
\* the average
backgroundLabel_firstPixel(combinedData) ==
    LET label(dominantColor) ==
            classifyBackgroundColor(getDominantColor(SubSeq(combinedData, 1, 4)))
                \o " / " \o environmentOf(dominantColor)
    IN  With(label, getDominantColor(combinedData))

\* the label analyzeBackground computes from the combined edge pixels
backgroundLabel(combinedData) ==
    LET label(dominantColor) ==
            classifyBackgroundColor(dominantColor) \o " / " \o environmentOf(dominantColor)
    IN  With(label, getDominantColor(combinedData))

analyzeBackground(W, leftData, rightData) ==
    LET report(environment) ==
            IF environment # W.s.backgroundColor
            THEN addObservation([W EXCEPT !.s.backgroundColor = environment,
                                          !.e.userBackground = environment],
                                "AI", "Environment: " \o environment)
            ELSE W
    IN  With(report, backgroundLabel(leftData \o rightData))

\* how far a pass gets: "skipped" (the guard of analyzeColors returns),
\* "eye" / "hair" / "background" (that step's getImageData threw and the
\* exception left the timer callback), "done"
passOutcome(s) ==
    IF ~s.webcamActive \/ ~s.detectionCanvas.created THEN "skipped"
    ELSE IF getImageDataThrows(eyeRegion(s)) THEN "eye"
    ELSE IF getImageDataThrows(hairRegion(s)) THEN "hair"
    ELSE IF getImageDataThrows(leftEdgeRegion(s))
            \/ getImageDataThrows(rightEdgeRegion(s)) THEN "background"
    ELSE "done"

\* variant: every pass that runs also resets state.gazeDirection
analyzeColors_resetsGaze(W, scene) ==
    LET pass(outcome) ==
            LET afterHair(W2) ==
                    IF outcome = "background" THEN W2
                    ELSE analyzeBackground(W2, scene.left, scene.right)
                afterEye(W1) ==
                    IF outcome = "hair" THEN W1
                    ELSE With(afterHair, analyzeHairColor(W1, scene.hair))
            IN  IF outcome = "skipped" THEN W
                ELSE IF outcome = "eye" THEN [W EXCEPT !.s.gazeDirection = "CENTER"]
                ELSE With(afterEye, analyzeEyeColor([W EXCEPT !.s.gazeDirection = "CENTER"],
                                                    scene.eye))
    IN  With(pass, passOutcome(W.s))

analyzeColors(W, scene) ==
    LET pass(outcome) ==
            LET afterHair(W2) ==
                    IF outcome = "background" THEN W2
                    ELSE analyzeBackground(W2, scene.left, scene.right)
                afterEye(W1) ==
                    IF outcome = "hair" THEN W1
                    ELSE With(afterHair, analyzeHairColor(W1, scene.hair))
            IN  IF outcome \in {"skipped", "eye"} THEN W
                ELSE With(afterEye, analyzeEyeColor(W, scene.eye))
    IN  With(pass, passOutcome(W.s))


(***************************************************************************)
(* fetchIPInfo (v2 737-755, v1 645-668).                                   *)
(***************************************************************************)
\* String.prototype.split('.') on a sequence of characters
RECURSIVE splitDots(_, _, _)
splitDots(chars, cur, acc) ==
    IF chars = <<>> THEN Append(acc, cur)
    ELSE IF Head(chars) = "." THEN splitDots(Tail(chars), "", Append(acc, cur))
    ELSE splitDots(Tail(chars), cur \o Head(chars), acc)

\* variant: the third part shown as well
maskedIP_threeParts(ip) ==
    LET ipParts == splitDots(ip, "", <<>>)
        part(i) == IF i <= Len(ipParts) THEN ipParts[i] ELSE "undefined"
    IN  part(1) \o "." \o part(2) \o "." \o part(3) \o ".XXX"

\* `${ipParts[0]}.${ipParts[1]}.XXX.XXX`: a missing part prints "undefined"
maskedIP(ip) ==
    LET ipParts == splitDots(ip, "", <<>>)
        part(i) == IF i <= Len(ipParts) THEN ipParts[i] ELSE "undefined"
    IN  part(1) \o "." \o part(2) \o ".XXX.XXX"

fetchIPInfoResponse(W, data) ==
    LET W1 == IF data.ip # <<>>
              THEN LET shown == [W EXCEPT !.e.userIP = maskedIP(data.ip)]
                   IN  IF script = "v1"
                       THEN addObservation(shown, "NETWORK",
                                "IP address detected: " \o maskedIP(data.ip))
                       ELSE shown
              ELSE W
    IN  IF data.city # "" /\ data.country_name # ""
        THEN addObservation(
                 [W1 EXCEPT !.e.userLocation =
                      data.city \o ", " \o data.region \o ", " \o data.country_name],
                 "LOCATION",
                 IF script = "v1"
                 THEN "Subject located in " \o data.city \o ", " \o data.region
                          \o ", " \o data.country_name
                 ELSE "Subject located in " \o data.city \o ", " \o data.country_name)
        ELSE W1

fetchIPInfoError(W) ==
    LET W1 == [W EXCEPT !.e.userIP = "MASKED", !.e.userLocation = "UNDISCLOSED"]
    IN  IF script = "v1"
        THEN addObservation(W1, "NETWORK", "IP detection blocked or unavailable")
        ELSE W1

(***************************************************************************)
(* Behaviour tracking (v2 761-836, v1 670-743).                            *)
(***************************************************************************)
Abs(x) == IF x < 0 THEN -x ELSE x

\* variant: the sample taken on the first movement of every fifty
trackMouse_firstOfFifty(W, e) ==
    LET s1 == [W.s EXCEPT !.lastMouseX = W.s.mouseX, !.lastMouseY = W.s.mouseY,
                          !.mouseX = e.x, !.mouseY = e.y,
                          !.mouseMovements = @ + 1]
        dx == s1.mouseX - s1.lastMouseX
        dy == s1.mouseY - s1.lastMouseY
        direction == IF script = "v2" \/ Abs(dx) > Abs(dy)
                     THEN (IF dx > 0 THEN "RIGHT" ELSE "LEFT")
                     ELSE (IF dy > 0 THEN "DOWN" ELSE "UP")
        W1 == [W EXCEPT !.s = s1]
    IN  IF s1.mouseMovements % MouseSample = 1
        THEN addObservation(W1, "MOUSE", "Cursor moved " \o direction \o " -- Position: "
                                \o ToString(s1.mouseX) \o ", " \o ToString(s1.mouseY))
        ELSE W1

trackMouse(W, e) ==
    LET s1 == [W.s EXCEPT !.lastMouseX = W.s.mouseX, !.lastMouseY = W.s.mouseY,
                          !.mouseX = e.x, !.mouseY = e.y,
                          !.mouseMovements = @ + 1]
        dx == s1.mouseX - s1.lastMouseX
        dy == s1.mouseY - s1.lastMouseY
        direction == IF script = "v2" \/ Abs(dx) > Abs(dy)
                     THEN (IF dx > 0 THEN "RIGHT" ELSE "LEFT")
                     ELSE (IF dy > 0 THEN "DOWN" ELSE "UP")
        W1 == [W EXCEPT !.s = s1]
    IN  IF s1.mouseMovements % MouseSample = 0
        THEN addObservation(W1, "MOUSE", "Cursor moved " \o direction \o " -- Position: "
                                \o ToString(s1.mouseX) \o ", " \o ToString(s1.mouseY))
        ELSE W1

\* target: the tag name of e.target and the title of the artwork card it
\* lies in ("" when it lies in none)
trackClick(W, target) ==
    LET description == IF target.card # ""
                       THEN "Subject examining: \"" \o target.card \o "\""
                       ELSE "Click detected on " \o target.tag
    IN  addObservation([W EXCEPT !.s.clicks = @ + 1], "CLICK", description)

trackScroll(W, scrollPercent) ==
    LET W1 == [W EXCEPT !.s.scrolls = @ + 1]
    IN  IF W1.s.scrolls % ScrollSample = 0
        THEN addObservation(W1, "SCROLL",
                 (IF script = "v1" THEN "Subject scrolled -- " ELSE "")
                     \o ToString(scrollPercent) \o "% through exhibition")
        ELSE W1

trackKeypress(W) ==
    LET W1 == [W EXCEPT !.s.keystrokes = @ + 1]
    IN  IF script = "v1" THEN addObservation(W1, "INPUT", "Keystroke detected") ELSE W1

\* variant: hiding the tab marks the camera inactive
trackVisibility_pausesCamera(W, hidden) ==
    IF hidden
    THEN updateTicker(addObservation([W EXCEPT !.s.webcamActive = FALSE], "ATTENTION",
                                     "Subject has left the exhibition tab"),
                      "SUBJECT HAS DIVERTED ATTENTION")
    ELSE updateTicker(addObservation(W, "ATTENTION",
                          IF script = "v2" THEN "Subject has returned"
                          ELSE "Subject has returned to exhibition"),
                      "SUBJECT HAS RETURNED")

trackVisibility(W, hidden) ==
    IF hidden
    THEN updateTicker(addObservation(W, "ATTENTION", "Subject has left the exhibition tab"),
                      "SUBJECT HAS DIVERTED ATTENTION")
    ELSE updateTicker(addObservation(W, "ATTENTION",
                          IF script = "v2" THEN "Subject has returned"
                          ELSE "Subject has returned to exhibition"),
                      "SUBJECT HAS RETURNED")

trackResize(W, size) == addObservation(W, "WINDOW", "Viewport resized to " \o size)

(***************************************************************************)
(* Camera and microphone (v2 151-226, v1 125-187).                         *)
(***************************************************************************)
denyCamera(W) ==
    LET W1 == [W EXCEPT !.e.modalHidden = TRUE,
                        !.e.userEyeColor = "NO VISUAL", !.e.userHairColor = "NO VISUAL",
                        !.e.userBackground = "NO VISUAL", !.e.userGaze = "NO VISUAL",
                        !.e.audioStatus = IF script = "v2" THEN "NO ACCESS" ELSE @]
        W2 == addObservation(W1, "CAMERA",
                  IF script = "v2" THEN "Subject denied observation"
                  ELSE "Subject denied visual observation")
        W3 == addObservation(W2, "SYSTEM", "Continuing with behavioral surveillance only")
    IN  updateTicker(W3, "MEDIA ACCESS DENIED")

\* the try block of requestMediaAccess / requestCamera after getUserMedia
\* resolved
cameraGranted(W) ==
    LET W1 == [W EXCEPT !.s.webcamActive = TRUE, !.e.onloadedmetadata = TRUE]
        W2 == addObservation(W1, "CAMERA", "Subject has consented to visual observation")
        W3 == addObservation(W2, "AI", "Initiating facial analysis protocols...")
    IN  IF script = "v2"
        THEN addObservation(W3, "SYSTEM",
                 "Curatorial context deferred - subject is the primary exhibit")
        ELSE updateTicker(W3, "CAMERA ACCESS GRANTED")

\* variant: a catch block that swallows the rejection
cameraRejected_silent(W) == W

\* the catch block after getUserMedia rejected
cameraRejected(W) ==
    IF script = "v2"
    THEN addObservation(W, "CAMERA", "Camera access denied")
    ELSE denyCamera(W)

\* v2 189-203: the microphone request's two outcomes and the ticker update
microphoneGranted(W) ==
    updateTicker(
        addObservation([W EXCEPT !.s.microphoneActive = TRUE, !.e.audioStatus = "ACTIVE"],
                       "AUDIO", "Microphone access granted - listening..."),
        "MEDIA ACCESS GRANTED")

microphoneRejected(W) ==
    updateTicker(
        addObservation([W EXCEPT !.e.audioStatus = "DENIED"],
                       "AUDIO", "Microphone access denied"),
        "MEDIA ACCESS GRANTED")

createDetectionCanvas(W) ==
    [W EXCEPT !.s.detectionCanvas =
        [created |-> TRUE,
         width  |-> IF W.e.videoWidth # 0 THEN W.e.videoWidth ELSE DefaultCanvasWidth,
         height |-> IF W.e.videoHeight # 0 THEN W.e.videoHeight ELSE DefaultCanvasHeight]]

startBasicAnalysis(W) == addObservation(W, "AI", "Using basic color analysis mode")


(***************************************************************************)
(* The state after the script has been evaluated (v2 10-42).               *)
(***************************************************************************)
InitPage ==
    /\ script \in Scripts
    /\ page = "loading"
    /\ state = [mouseX |-> 0, mouseY |-> 0, lastMouseX |-> 0, lastMouseY |-> 0,
                mouseMovements |-> 0, clicks |-> 0, scrolls |-> 0, keystrokes |-> 0,
                webcamActive |-> FALSE, microphoneActive |-> FALSE,
                faceApiLoaded |-> FALSE, observations |-> <<>>,
                lastFaceDetection |-> NoFace,
                eyeColor |-> NULL, hairColor |-> NULL, backgroundColor |-> NULL,
                gazeDirection |-> "CENTER", detectionCanvas |-> NoCanvas]
    /\ elements = [logEntries |-> <<>>, ticker |-> "", modalHidden |-> FALSE,
                   userIP |-> "", userLocation |-> "", userGaze |-> "",
                   userEyeColor |-> "", userHairColor |-> "", userBackground |-> "",
                   audioStatus |-> "", videoWidth |-> 0, videoHeight |-> 0,
                   onloadedmetadata |-> FALSE]
    /\ faceApi = "idle"
    /\ ipFetch = "idle"
    /\ media = "idle"
    /\ video = "none"
    /\ detectLoop = "off"
    /\ colorIntervals = 0
    /\ clock = 0
    /\ used = [events |-> 0, passes |-> 0, polls |-> 0, faces |-> 0]

Init == InitPage /\ lastOp = Op("script")

\* the turn's effect on the two objects
Becomes(W) == \E world \in {W} : state' = world.s /\ elements' = world.e

(***************************************************************************)
(* Page load (v2 84-114).                                                  *)
(***************************************************************************)
initSurveillance(W) ==
    addObservation(addObservation(W, "SYSTEM", "Observation protocols initialized"),
                   "SYSTEM", "Subject has entered the exhibition")

collectDeviceInfo(W) ==
    IF script = "v2"
    THEN addObservation(W, "DEVICE", "Browser: Chrome, Screen: 1920x1080")
    ELSE addObservation(addObservation(W, "DEVICE", "Browser identified: Chrome"),
                        "DEVICE", "Screen resolution: 1920x1080")

OnDOMContentLoaded ==
    /\ page = "loading"
    /\ page' = "ready"
    /\ Becomes(collectDeviceInfo(initSurveillance(World)))
    /\ ipFetch' = "pending"
    /\ faceApi' = "loading"
    /\ lastOp' = Op("DOMContentLoaded")
    /\ UNCHANGED <<script, media, video, detectLoop, colorIntervals, clock, used>>

\* variant: a model load that completes after the metadata starts the loop
OnModelsLoaded_startsLoop ==
    /\ faceApi = "loading"
    /\ faceApi' = "loaded"
    /\ Becomes(addObservation([World EXCEPT !.s.faceApiLoaded = TRUE],
                              "AI", "Face detection models loaded"))
    /\ detectLoop' = IF video = "playing" /\ detectLoop = "off"
                     THEN detectFace(World) ELSE detectLoop
    /\ lastOp' = Op("modelsLoaded")
    /\ UNCHANGED <<script, page, ipFetch, media, video, colorIntervals, clock, used>>

\* initFaceApi after Promise.all resolved
OnModelsLoaded ==
    /\ faceApi = "loading"
    /\ faceApi' = "loaded"
    /\ Becomes(addObservation([World EXCEPT !.s.faceApiLoaded = TRUE],
                              "AI", "Face detection models loaded"))
    /\ lastOp' = Op("modelsLoaded")
    /\ UNCHANGED <<script, page, ipFetch, media, video, detectLoop, colorIntervals,
                   clock, used>>

\* variant: a catch block that sets state.faceApiLoaded all the same
OnModelsFailed_flagSet ==
    /\ faceApi = "loading"
    /\ faceApi' = "failed"
    /\ Becomes(addObservation([World EXCEPT !.s.faceApiLoaded = TRUE], "AI",
                   "Face detection unavailable - using fallback"))
    /\ lastOp' = Op("modelsFailed")
    /\ UNCHANGED <<script, page, ipFetch, media, video, detectLoop, colorIntervals,
                   clock, used>>

\* initFaceApi's catch block
OnModelsFailed ==
    /\ faceApi = "loading"
    /\ faceApi' = "failed"
    /\ Becomes(addObservation(World, "AI",
                   IF script = "v2" THEN "Face detection unavailable - using fallback"
                   ELSE "Face detection unavailable - using fallback analysis"))
    /\ lastOp' = Op("modelsFailed")
    /\ UNCHANGED <<script, page, ipFetch, media, video, detectLoop, colorIntervals,
                   clock, used>>

OnIPResponse ==
    /\ ipFetch = "pending"
    /\ ipFetch' = "done"
    /\ \E data \in IPData : Becomes(fetchIPInfoResponse(World, data))
    /\ lastOp' = Op("ipResponse")
    /\ used' = [used EXCEPT !.events = Counted(@)]
    /\ UNCHANGED <<script, page, faceApi, media, video, detectLoop, colorIntervals,
                   clock>>

OnIPFailure ==
    /\ ipFetch = "pending"
    /\ ipFetch' = "done"
    /\ Becomes(fetchIPInfoError(World))
    /\ lastOp' = Op("ipFailure")
    /\ used' = [used EXCEPT !.events = Counted(@)]
    /\ UNCHANGED <<script, page, faceApi, media, video, detectLoop, colorIntervals,
                   clock>>

(***************************************************************************)
(* The consent modal.  Its two buttons can be clicked while the modal is   *)
(* shown; a click also reaches the document's click listener (trackClick). *)
(***************************************************************************)
ButtonTarget == [tag |-> "button", card |-> ""]

OnAllowClick ==
    /\ page = "ready" /\ ~elements.modalHidden /\ media = "idle"
    /\ media' = "camera"
    /\ Becomes(trackClick([World EXCEPT !.e.modalHidden = TRUE], ButtonTarget))
    /\ lastOp' = Op("allowClick")
    /\ UNCHANGED <<script, page, faceApi, ipFetch, video, detectLoop, colorIntervals,
                   clock, used>>

OnDenyClick ==
    /\ page = "ready" /\ ~elements.modalHidden
    /\ Becomes(trackClick(denyCamera(World), ButtonTarget))
    /\ lastOp' = Op("denyClick")
    /\ UNCHANGED <<script, page, faceApi, ipFetch, media, video, detectLoop,
                   colorIntervals, clock, used>>

OnCameraGranted ==
    /\ media = "camera"
    /\ media' = IF script = "v2" THEN "microphone" ELSE "done"
    /\ video' = "loading"
    /\ Becomes(cameraGranted(World))
    /\ lastOp' = Op("cameraGranted")
    /\ UNCHANGED <<script, page, faceApi, ipFetch, detectLoop, colorIntervals, clock, used>>

OnCameraRejected ==
    /\ media = "camera"
    /\ media' = IF script = "v2" THEN "microphone" ELSE "done"
    /\ Becomes(cameraRejected(World))
    /\ lastOp' = Op("cameraRejected")
    /\ UNCHANGED <<script, page, faceApi, ipFetch, video, detectLoop, colorIntervals,
                   clock, used>>

OnMicrophoneGranted ==
    /\ media = "microphone"
    /\ media' = "done"
    /\ Becomes(microphoneGranted(World))
    /\ lastOp' = Op("microphoneGranted")
    /\ UNCHANGED <<script, page, faceApi, ipFetch, video, detectLoop, colorIntervals,
                   clock, used>>

OnMicrophoneRejected ==
    /\ media = "microphone"
    /\ media' = "done"
    /\ Becomes(microphoneRejected(World))
    /\ lastOp' = Op("microphoneRejected")
    /\ UNCHANGED <<script, page, faceApi, ipFetch, video, detectLoop, colorIntervals,
                   clock, used>>

\* elements.webcam.onloadedmetadata (v2 167-178)
OnLoadedMetadata ==
    /\ video = "loading" /\ elements.onloadedmetadata
    /\ video' = "playing"
    /\ \E dims \in VideoDims :
         LET W1 == createDetectionCanvas(
                       [World EXCEPT !.e.videoWidth = dims.w, !.e.videoHeight = dims.h])
         IN  IF state.faceApiLoaded
             THEN /\ Becomes(W1)
                  /\ detectLoop' = detectFace(W1)
             ELSE /\ Becomes(startBasicAnalysis(W1))
                  /\ detectLoop' = detectLoop
    /\ colorIntervals' = colorIntervals + 1
    /\ lastOp' = Op("loadedmetadata")
    /\ UNCHANGED <<script, page, faceApi, ipFetch, media, clock, used>>

\* the camera reports its frame size after the metadata event
OnVideoResize ==
    /\ video = "playing" /\ elements.videoWidth = 0
    /\ elements' = [elements EXCEPT !.videoWidth = 640, !.videoHeight = 480]
    /\ lastOp' = Op("videoResize")
    /\ UNCHANGED <<script, page, state, faceApi, ipFetch, media, video, detectLoop,
                   colorIntervals, clock, used>>

(***************************************************************************)
(* The detection loop (v2 314-343).                                        *)
(***************************************************************************)
\* variant: the next call scheduled when the detector is called, not after
\* its promise settled
OnDetectFaceTimer_eager ==
    /\ detectLoop \in {"raf", "timeout", "detecting"}
    /\ detectLoop' = detectFace(World)
    /\ lastOp' = Op("detectFace")
    /\ UNCHANGED <<script, page, state, elements, faceApi, ipFetch, media, video,
                   colorIntervals, clock, used>>

\* variant: only requestAnimationFrame calls detectFace, no timeout does
OnDetectFaceTimer_frameOnly ==
    /\ detectLoop = "raf"
    /\ detectLoop' = detectFace(World)
    /\ lastOp' = Op("detectFace")
    /\ UNCHANGED <<script, page, state, elements, faceApi, ipFetch, media, video,
                   colorIntervals, clock, used>>

\* requestAnimationFrame / setTimeout calls detectFace
OnDetectFaceTimer ==
    /\ detectLoop \in {"raf", "timeout"}
    /\ detectLoop' = detectFace(World)
    /\ lastOp' = Op("detectFace")
    /\ UNCHANGED <<script, page, state, elements, faceApi, ipFetch, media, video,
                   colorIntervals, clock, used>>

\* the detector's promise resolves with face (NoFace: with undefined)
OnDetectorResultWith(face) ==
    /\ detectLoop = "detecting"
    /\ detectLoop' = "timeout"
    /\ Becomes(detectionResult(World, face))
    /\ lastOp' = [Op("detectorResult") EXCEPT
                     !.face = face,
                     !.direction = IF face = NoFace THEN NULL
                                   ELSE gazeOf(getCenterPoint(Faces[face].nose),
                                               Faces[face].box)]
    /\ used' = [used EXCEPT !.polls = Counted(@), !.events = Counted(@),
                            !.faces = IF face = NoFace THEN @ ELSE Counted(@)]
    /\ UNCHANGED <<script, page, faceApi, ipFetch, media, video, colorIntervals, clock>>

OnDetectorResult == \E face \in {NoFace} \cup FaceIds : OnDetectorResultWith(face)

\* variant: the setTimeout inside the try block, skipped by the throw
OnDetectorError_noTimeout ==
    /\ detectLoop = "detecting"
    /\ detectLoop' = "off"
    /\ lastOp' = Op("detectorError")
    /\ used' = [used EXCEPT !.polls = Counted(@), !.events = Counted(@)]
    /\ UNCHANGED <<script, page, state, elements, faceApi, ipFetch, media, video,
                   colorIntervals, clock>>

\* the detector's promise rejects: the catch block logs to the console
OnDetectorError ==
    /\ detectLoop = "detecting"
    /\ detectLoop' = "timeout"
    /\ lastOp' = Op("detectorError")
    /\ used' = [used EXCEPT !.polls = Counted(@), !.events = Counted(@)]
    /\ UNCHANGED <<script, page, state, elements, faceApi, ipFetch, media, video,
                   colorIntervals, clock>>

\* one firing of setInterval(analyzeColors, 2000), the frame showing scene
OnColorIntervalWith(scene) ==
    /\ colorIntervals > 0
    /\ \E outcome \in {passOutcome(state)} :
           /\ Becomes(analyzeColors(World, scene))
           /\ lastOp' = [Op("analyzeColors") EXCEPT
                !.eyeRegion = IF outcome = "skipped" THEN NoRect ELSE eyeRegion(state),
                !.hairRegion = IF outcome \in {"skipped", "eye"} THEN NoRect
                               ELSE hairRegion(state),
                !.eye = IF outcome \in {"skipped", "eye"} THEN NULL
                        ELSE classifyEyeColor(getDominantColor(scene.eye)),
                !.hair = IF outcome \in {"skipped", "eye", "hair"} THEN NULL
                         ELSE classifyHairColor(getDominantColor(scene.hair)),
                !.background = IF outcome # "done" THEN NULL
                               ELSE backgroundLabel(scene.left \o scene.right),
                !.outcome = outcome]
    /\ used' = [used EXCEPT !.passes = Counted(@), !.events = Counted(@)]
    /\ UNCHANGED <<script, page, faceApi, ipFetch, media, video, detectLoop,
                   colorIntervals, clock>>

OnColorInterval == \E scene \in Scenes : OnColorIntervalWith(scene)


(***************************************************************************)
(* Input events, the sound-spike report of drawWaveform (v2 304-307), the  *)
(* ticker timer (v2 866-899) and the passing of time.                      *)
(***************************************************************************)
ClickTarget == [tag |-> "div", card |-> ""]
CardTarget == [tag |-> "img", card |-> "Untitled"]

Input(op, W) ==
    /\ page = "ready"
    /\ Becomes(W)
    /\ lastOp' = Op(op)
    /\ used' = [used EXCEPT !.events = Counted(@)]
    /\ UNCHANGED <<script, page, faceApi, ipFetch, media, video, detectLoop,
                   colorIntervals, clock>>

OnMouseMove == \E e \in MousePositions : Input("mousemove", trackMouse(World, e))

OnClick(target) == Input("click", trackClick(World, target))

OnScroll == Input("scroll", trackScroll(World, 40))

OnKeyDown == Input("keydown", trackKeypress(World))

OnVisibilityChange == \E hidden \in BOOLEAN : Input("visibilitychange", trackVisibility(World, hidden))

OnResize == Input("resize", trackResize(World, "800x600"))

OnSoundSpike ==
    /\ state.microphoneActive
    /\ Input("soundSpike", addObservation(World, "AUDIO", "Sound spike detected: -20 dB"))

\* generateTickerContent: the first ticker item
OnTickerInterval ==
    /\ page = "ready"
    /\ elements' = [elements EXCEPT
           !.ticker = "MOUSE MOVEMENTS: " \o ToString(state.mouseMovements)]
    /\ lastOp' = Op("ticker")
    /\ used' = [used EXCEPT !.events = Counted(@)]
    /\ UNCHANGED <<script, page, state, faceApi, ipFetch, media, video, detectLoop,
                   colorIntervals, clock>>

\* The older script's checkInactivity timer (v1 850-860), at a firing that
\* finds the idle time in one of its two windows (30-35 s, 60-65 s).
InactivityMessages ==
    {"Subject appears to be idle -- still watching?",
     "Extended inactivity detected -- subject may have abandoned observation"}

OnCheckInactivity ==
    /\ script = "v1"
    /\ \E message \in InactivityMessages :
         Input("checkInactivity", addObservation(World, "BEHAVIOR", message))

\* The older script's 15 s timer (v1 866-882), at a firing whose
\* Math.random() exceeds 0.7: generateRandomObservation picks one of four.
RandomObservations ==
    {[type |-> "ANALYSIS", msg |-> "Behavioral patterns being recorded"],
     [type |-> "SYSTEM", msg |-> "Data packet transmitted"],
     [type |-> "ANALYSIS", msg |-> "Engagement metrics updating"],
     [type |-> "AI", msg |-> "Visual analysis processing..."]}

OnRandomObservation ==
    /\ script = "v1"
    /\ \E obs \in RandomObservations :
         Input("randomObservation", addObservation(World, obs.type, obs.msg))

Tick ==
    /\ clock' = clock + 1
    /\ lastOp' = Op("tick")
    /\ used' = [used EXCEPT !.events = Counted(@)]
    /\ UNCHANGED <<script, page, state, elements, faceApi, ipFetch, media, video,
                   detectLoop, colorIntervals>>

(***************************************************************************)
(* The page: every turn.  The events beside the start-up sequence share    *)
(* the budget MaxEvents.                                                   *)
(***************************************************************************)
Budget == used.events < MaxEvents

Next ==
    \/ OnDOMContentLoaded
    \/ OnModelsLoaded
    \/ OnModelsFailed
    \/ (Budget /\ OnIPResponse)
    \/ (Budget /\ OnIPFailure)
    \/ OnAllowClick
    \/ OnDenyClick
    \/ OnCameraGranted
    \/ OnCameraRejected
    \/ OnMicrophoneGranted
    \/ OnMicrophoneRejected
    \/ OnLoadedMetadata
    \/ OnVideoResize
    \/ OnDetectFaceTimer
    \/ (Budget /\ OnDetectorResult)
    \/ (Budget /\ OnDetectorError)
    \/ (Budget /\ OnColorInterval)
    \/ (Budget /\ OnMouseMove)
    \/ (Budget /\ \E target \in {ClickTarget, CardTarget} : OnClick(target))
    \/ (Budget /\ OnScroll)
    \/ (Budget /\ OnKeyDown)
    \/ (Budget /\ OnVisibilityChange)
    \/ (Budget /\ OnResize)
    \/ (Budget /\ OnSoundSpike)
    \/ (Budget /\ OnTickerInterval)
    \/ (Budget /\ OnCheckInactivity)
    \/ (Budget /\ OnRandomObservation)
    \/ (Budget /\ Tick)

Spec == Init /\ [][Next]_vars

(***************************************************************************)
(* The vision pipeline alone: page load, consent, camera and microphone,   *)
(* the detection loop and the colour analysis, with no input events, no IP *)
(* response and a standing clock.                                          *)
(***************************************************************************)
NextVision ==
    \/ OnDOMContentLoaded
    \/ OnModelsLoaded
    \/ OnModelsFailed
    \/ OnAllowClick
    \/ OnDenyClick
    \/ OnCameraGranted
    \/ OnCameraRejected
    \/ OnMicrophoneGranted
    \/ OnMicrophoneRejected
    \/ OnLoadedMetadata
    \/ OnVideoResize
    \/ OnDetectFaceTimer
    \/ (used.polls < MaxPolls /\ OnDetectorResult)
    \/ (used.polls < MaxPolls /\ OnDetectorError)
    \/ (used.passes < MaxPasses /\ OnColorInterval)

SpecVision == Init /\ [][NextVision]_vars

(***************************************************************************)
(* The observation log alone: the page loads and is clicked until the      *)
(* history holds MaxLogObs entries, while the clock advances.              *)
(***************************************************************************)
NextLog ==
    \/ OnDOMContentLoaded
    \/ (Len(state.observations) < MaxLogObs /\ OnClick(ClickTarget))
    \/ (clock < MaxClock /\ Tick)

SpecLog == Init /\ [][NextLog]_vars


(***************************************************************************)
(* The two polling loops for the page's lifetime.  The start-up sequence   *)
(* is free; the timers, the detector's completions and the camera's frame  *)
(* size are scheduled fairly.  The subject sits still in front of a white  *)
(* wall: the detector finds the centred face or none, or throws.           *)
(***************************************************************************)
LoopFaces == {NoFace, 1}
LoopScenes ==
    {scene \in Scenes :
        backgroundLabel(scene.left \o scene.right) = "LIGHT / BRIGHT ENVIRONMENT"}

\* the detector's promise settles
DetectorCompletes ==
    \/ \E face \in LoopFaces : OnDetectorResultWith(face)
    \/ OnDetectorError

\* the 2 s interval timer fires
ColorTimerFires == \E scene \in LoopScenes : OnColorIntervalWith(scene)

NextLoop ==
    \/ OnDOMContentLoaded
    \/ OnModelsLoaded
    \/ OnModelsFailed
    \/ OnAllowClick
    \/ OnCameraGranted
    \/ OnCameraRejected
    \/ OnMicrophoneGranted
    \/ OnMicrophoneRejected
    \/ OnLoadedMetadata
    \/ OnVideoResize
    \/ OnDetectFaceTimer
    \/ DetectorCompletes
    \/ ColorTimerFires

SpecLoop ==
    /\ Init /\ [][NextLoop]_vars
    /\ WF_vars(OnVideoResize)
    /\ WF_vars(OnDetectFaceTimer)
    /\ WF_vars(DetectorCompletes)
    /\ WF_vars(ColorTimerFires)

(***************************************************************************)
(* The vision pipeline among the behaviour-tracking handlers: detector     *)
(* results, colour passes and input events, MaxTurns of them in any order. *)
(***************************************************************************)
TurnLeft == used.events < MaxTurns

OnTrackedInput ==
    \/ OnMouseMove
    \/ \E target \in {ClickTarget, CardTarget} : OnClick(target)
    \/ OnScroll
    \/ OnKeyDown
    \/ OnVisibilityChange
    \/ OnResize

NextFrame ==
    \/ OnDOMContentLoaded
    \/ OnModelsLoaded
    \/ OnAllowClick
    \/ OnCameraGranted
    \/ OnLoadedMetadata
    \/ OnDetectFaceTimer
    \/ (TurnLeft /\ OnDetectorResult)
    \/ (TurnLeft /\ OnDetectorError)
    \/ (TurnLeft /\ OnColorInterval)
    \/ (TurnLeft /\ OnTrackedInput)

SpecFrame == Init /\ [][NextFrame]_vars

(***************************************************************************)
(* The classifiers alone, applied to sampled colours: every combination of *)
(* ChannelLevels + 1 evenly spaced channel values, three named colours and *)
(* the greys at the brightness thresholds.  The background is classified   *)
(* from a region of two pixels, the colour beside itself or beside black.  *)
(***************************************************************************)
Rgb(r, g, b) == [nan |-> FALSE, r |-> r, g |-> g, b |-> b]

ChannelValues == {(i * 255) \div ChannelLevels : i \in 0..ChannelLevels}

SampleColors ==
    {Rgb(r, g, b) : r \in ChannelValues, g \in ChannelValues, b \in ChannelValues}
        \cup {Rgb(0, 0, 0), Rgb(20, 20, 20), Rgb(230, 230, 230)}
        \cup {Rgb(50, 50, 50), Rgb(100, 100, 100), Rgb(180, 180, 180)}

\* ImageData.data of a region of two pixels
RegionOf(color, other) == Px(color.r, color.g, color.b) \o Px(other.r, other.g, other.b)

InitColor ==
    /\ InitPage
    /\ \E color \in SampleColors : \E other \in {color, Rgb(0, 0, 0)} :
          lastOp = [op |-> "sample", color |-> color, region |-> RegionOf(color, other),
                    hsl |-> NULL,
                    eye |-> NULL, hair |-> NULL, name |-> NULL, background |-> NULL]

\* rgbToHsl and the three classifiers on the sampled colour, the steps of
\* analyzeBackground up to the label on the sampled region
ClassifySample ==
    /\ lastOp.op = "sample"
    /\ lastOp' = [lastOp EXCEPT !.op = "classified",
                                !.hsl = rgbToHsl(lastOp.color.r, lastOp.color.g,
                                                 lastOp.color.b, lastOp.color.nan),
                                !.eye = classifyEyeColor(lastOp.color),
                                !.hair = classifyHairColor(lastOp.color),
                                !.name = classifyBackgroundColor(lastOp.color),
                                !.background = backgroundLabel(lastOp.region)]
    /\ UNCHANGED <<script, page, state, elements, faceApi, ipFetch, media, video,
                   detectLoop, colorIntervals, clock, used>>

NextColor == ClassifySample

SpecColor == InitColor /\ [][NextColor]_vars

(***************************************************************************)
(* The gaze estimate alone, applied to sampled detections: two boxes, the  *)
(* nose up to MaxOffset pixels from the box centre each way, the eyes in   *)
(* one corner of the frame or the other.                                   *)
(***************************************************************************)
SampleBoxes == {[x |-> 200, y |-> 100, width |-> 200, height |-> 200],
                [x |-> 0, y |-> 0, width |-> 100, height |-> 50]}

SampleEyes == {<<Pt(0, 0), Pt(2, 0)>>, <<Pt(630, 470), Pt(638, 478)>>}

InitGaze ==
    /\ InitPage
    /\ \E box \in SampleBoxes, eyes \in SampleEyes :
       \E dx \in -MaxOffset..MaxOffset, dy \in -MaxOffset..MaxOffset :
          lastOp = [op |-> "detection", dx |-> dx, dy |-> dy,
                    detection |->
                       [box |-> box, leftEye |-> eyes, rightEye |-> eyes,
                        nose |-> <<Pt(box.x + box.width \div 2 + dx,
                                      box.y + box.height \div 2 + dy)>>]]

\* processFaceDetection on the sampled detection
ProcessSample ==
    /\ lastOp.op = "detection"
    /\ Becomes(processFaceDetection(World, lastOp.detection))
    /\ lastOp' = [lastOp EXCEPT !.op = "processed"]
    /\ UNCHANGED <<script, page, faceApi, ipFetch, media, video, detectLoop,
                   colorIntervals, clock, used>>

NextGaze == ProcessSample

SpecGaze == InitGaze /\ [][NextGaze]_vars

(***************************************************************************)
(* getDominantColor alone, applied to sampled buffers of 1..MaxPixels      *)
(* pixels, every pixel one of five colours, transparent or opaque.         *)
(***************************************************************************)
SamplePixels ==
    {<<0, 0, 0, a>> : a \in {0, 255}} \cup {<<255, 255, 255, a>> : a \in {0, 255}}
        \cup {<<1, 2, 4, a>> : a \in {0, 255}} \cup {<<0, 1, 255, a>> : a \in {0, 255}}
        \cup {<<10, 20, 31, a>> : a \in {0, 255}}

\* ImageData.data of the pixels in order
RECURSIVE Interleaved(_)
Interleaved(pixelSeq) ==
    IF pixelSeq = <<>> THEN <<>> ELSE Head(pixelSeq) \o Interleaved(Tail(pixelSeq))

InitAverage ==
    /\ InitPage
    /\ \E n \in 1..MaxPixels : \E pixelSeq \in [1..n -> SamplePixels] :
          lastOp = [op |-> "buffer", pixels |-> Interleaved(pixelSeq), color |-> NULL]

AverageSample ==
    /\ lastOp.op = "buffer"
    /\ lastOp' = [lastOp EXCEPT !.op = "averaged",
                                !.color = getDominantColor(lastOp.pixels)]
    /\ UNCHANGED <<script, page, state, elements, faceApi, ipFetch, media, video,
                   detectLoop, colorIntervals, clock, used>>

NextAverage == AverageSample

SpecAverage == InitAverage /\ [][NextAverage]_vars

(***************************************************************************)
(* The three counting handlers alone: after the page load, up to MaxMoves  *)
(* mouse moves, MaxScrolls scrolls and MaxClicks clicks in any order.      *)
(***************************************************************************)
NextInput ==
    \/ OnDOMContentLoaded
    \/ (state.mouseMovements < MaxMoves /\ OnMouseMove)
    \/ (state.scrolls < MaxScrolls /\ OnScroll)
    \/ (state.clicks < MaxClicks /\ OnClick(ClickTarget))

SpecInput == Init /\ [][NextInput]_vars

(***************************************************************************)
(* The IP lookup's answer alone: every address of up to MaxAddress         *)
(* characters out of two digits, the dot and the colon, the missing        *)
(* address included, with no location.                                     *)
(***************************************************************************)
AddressChars == {"1", "2", ".", ":"}

SampleAddresses == UNION {[1..n -> AddressChars] : n \in 0..MaxAddress}

InitIP ==
    /\ InitPage
    /\ \E ip \in SampleAddresses :
          lastOp = [op |-> "ipData",
                    data |-> [ip |-> ip, city |-> "", region |-> "", country_name |-> ""]]

\* the try block of fetchIPInfo after response.json() resolved
ShowAddress ==
    /\ lastOp.op = "ipData"
    /\ Becomes(fetchIPInfoResponse(World, lastOp.data))
    /\ lastOp' = [lastOp EXCEPT !.op = "ipShown"]
    /\ UNCHANGED <<script, page, faceApi, ipFetch, media, video, detectLoop,
                   colorIntervals, clock, used>>

NextIP == ShowAddress

SpecIP == InitIP /\ [][NextIP]_vars

(***************************************************************************)
(* Properties.                                                             *)
(***************************************************************************)
\* the entries a step appends to state.observations
AppendedEntries ==
    SubSeq(state'.observations, Len(state.observations) + 1, Len(state'.observations))

IsPrefix(s, t) == Len(s) <= Len(t) /\ SubSeq(t, 1, Len(s)) = s

RECURSIVE OfType(_, _)
OfType(entries, type) ==
    IF entries = <<>> THEN <<>>
    ELSE IF Head(entries).type = type
         THEN <<Head(entries)>> \o OfType(Tail(entries), type)
         ELSE OfType(Tail(entries), type)

\* the entry a colour category owes the history in a pass: one 'AI' entry
\* when a label was computed and differs from the stored one
OwedEntry(stored, computed, prefix) ==
    IF computed # NULL /\ computed # stored
    THEN <<[timestamp |-> clock, type |-> "AI", message |-> prefix \o computed]>>
    ELSE <<>>

StoredAfter(stored, computed) == IF computed # NULL THEN computed ELSE stored

\* C1: in a colour-analysis pass each category (eye, hair, background) whose
\* label is computed appends one 'AI' entry if and only if the label differs
\* from the stored one, and then stores it; so a label repeated in the next
\* pass is logged in the first pass only.
C1_ColourEntryIffLabelChanged ==
    [][lastOp'.op = "analyzeColors" =>
         /\ AppendedEntries =
                OwedEntry(state.eyeColor, lastOp'.eye, "Eye color detected: ")
             \o OwedEntry(state.hairColor, lastOp'.hair, "Hair color detected: ")
             \o OwedEntry(state.backgroundColor, lastOp'.background, "Environment: ")
         /\ state'.eyeColor = StoredAfter(state.eyeColor, lastOp'.eye)
         /\ state'.hairColor = StoredAfter(state.hairColor, lastOp'.hair)
         /\ state'.backgroundColor = StoredAfter(state.backgroundColor, lastOp'.background)
    ]_vars

\* two full passes: the eye and hair labels of the second repeated the first
\* pass's (one entry each), the background label changed (two entries)
C1_Witness ==
    LET logged(message) ==
            Cardinality({i \in DOMAIN state.observations :
                            state.observations[i].message = message})
    IN  /\ used.passes = 2
        /\ lastOp.op = "analyzeColors" /\ lastOp.outcome = "done"
        /\ lastOp.eye = "BLUE" /\ state.eyeColor = "BLUE"
        /\ logged("Eye color detected: BLUE") = 1
        /\ logged("Hair color detected: LIGHT BROWN") = 1
        /\ logged("Environment: LIGHT / BRIGHT ENVIRONMENT") = 1
        /\ logged("Environment: NEUTRAL / NORMAL LIGHTING") = 1
        /\ state.backgroundColor = "NEUTRAL / NORMAL LIGHTING"

GazeEntries == OfType(state.observations, "GAZE")

\* C2: a detection appends one GAZE entry if and only if the computed
\* direction differs from state.gazeDirection, and processFaceDetection then
\* stores the direction; so no two consecutive GAZE entries report the same
\* direction.
C2_GazeEntryIffDirectionChanged ==
    /\ [][(lastOp'.op = "detectorResult" /\ lastOp'.face # NoFace) =>
            /\ AppendedEntries =
                   IF lastOp'.direction # state.gazeDirection
                   THEN <<[timestamp |-> clock, type |-> "GAZE",
                           message |-> "Subject looking " \o lastOp'.direction]>>
                   ELSE <<>>
            /\ state'.gazeDirection = lastOp'.direction
         ]_vars
    /\ [](\A i \in 1..(Len(GazeEntries) - 1) :
              GazeEntries[i].message # GazeEntries[i + 1].message)

\* two detections with different directions, each logged
C2_Witness ==
    /\ used.faces = 2
    /\ Len(GazeEntries) = 2
    /\ GazeEntries[1].message = "Subject looking LEFT"
    /\ state.gazeDirection = "DOWN-CENTER"

\* C3: the first gaze estimation of a session appends exactly one GAZE entry
\* whatever the direction, CENTER included; a second estimation with the same
\* direction appends none.
C3_FirstGazeAlwaysLogged ==
    [][(lastOp'.op = "detectorResult" /\ lastOp'.face # NoFace) =>
         IF used.faces = 0
         THEN Len(AppendedEntries) = 1 /\ AppendedEntries[1].type = "GAZE"
         ELSE (lastOp'.direction = state.gazeDirection => AppendedEntries = <<>>)
    ]_vars

\* the addObservation calls made so far in a run of SpecLog: those of the
\* page load and one per click
CallsMade ==
    (IF page = "ready" THEN (IF script = "v2" THEN 3 ELSE 4) ELSE 0) + state.clicks

\* C4: after n addObservation calls the visible log holds the most recent
\* min(n, 50) entries in order (never more than 50) and state.observations
\* holds all n.
C4_LogShowsLatestFifty ==
    LET n == Len(state.observations)
        m == Min(n, LogCap)
    IN  /\ n = CallsMade
        /\ Len(elements.logEntries) = m
        /\ elements.logEntries = SubSeq(state.observations, n - m + 1, n)

\* the history has outgrown the log by two entries, the first of the page load
C4_Witness ==
    /\ Len(state.observations) = LogCap + 2
    /\ Len(elements.logEntries) = LogCap
    /\ state.observations[1].type = "SYSTEM"
    /\ elements.logEntries[1].type # "SYSTEM"

\* C5: state.observations is append-only: no turn changes, reorders or
\* removes an entry already recorded, every entry appended carries the time
\* of its call, and a turn that makes one addObservation call (a click, a
\* resize) appends exactly one entry at the end.
C5_HistoryAppendOnly ==
    [][/\ IsPrefix(state.observations, state'.observations)
       /\ \A i \in DOMAIN AppendedEntries : AppendedEntries[i].timestamp = clock
       /\ lastOp'.op = "click" =>
            /\ Len(AppendedEntries) = 1
            /\ AppendedEntries[1].type = "CLICK"
       /\ lastOp'.op = "resize" =>
            /\ Len(AppendedEntries) = 1
            /\ AppendedEntries[1].type = "WINDOW"
    ]_vars

\* a click recorded behind the entries of the page load
C5_Witness ==
    /\ lastOp.op = "click"
    /\ Len(state.observations) >= 4
    /\ state.observations[Len(state.observations)].type = "CLICK"
    /\ state.observations[1].message = "Observation protocols initialized"

\* C6: when the detector's most recent result is "no face", the next colour
\* pass samples the eye and the hair from the fixed fractional regions of the
\* canvas, not from an earlier detection's landmarks or box.
C6_NoFaceUsesFixedRegions ==
    [][(/\ lastOp'.op = "analyzeColors"
        /\ lastOp'.outcome # "skipped"
        /\ elements.userGaze = "FACE NOT DETECTED") =>
         /\ lastOp'.eyeRegion = eyeFallbackRegion(state.detectionCanvas)
         /\ lastOp'.outcome # "eye" =>
                lastOp'.hairRegion = hairFallbackRegion(state.detectionCanvas)
    ]_vars

ColourLabels == <<state.eyeColor, state.hairColor, state.backgroundColor>>

\* C7: a pass whose sampling region is empty (a face box whose width rounds
\* to zero) is skipped without failing: the labels stay as they are and no
\* entry is appended.
C7_EmptyRegionSkipsPass ==
    [][(/\ lastOp'.op = "analyzeColors"
        /\ lastOp'.outcome \in {"eye", "hair", "background"}) =>
         /\ ColourLabels' = ColourLabels
         /\ AppendedEntries = <<>>
    ]_vars

\* C8: once the model load has failed, state.faceApiLoaded stays false, the
\* detection loop is never started, state.lastFaceDetection stays null, and
\* every colour pass samples the fixed regions.
C8_FailedLoadMeansFallback ==
    /\ [](faceApi = "failed" =>
            /\ ~state.faceApiLoaded
            /\ detectLoop = "off"
            /\ state.lastFaceDetection = NoFace)
    /\ [][faceApi = "failed" =>
            /\ faceApi' = "failed"
            /\ (lastOp'.op = "analyzeColors" /\ lastOp'.outcome # "skipped") =>
                 /\ lastOp'.eyeRegion = eyeFallbackRegion(state.detectionCanvas)
                 /\ lastOp'.hairRegion = hairFallbackRegion(state.detectionCanvas)
         ]_vars

\* the load failed, the camera was granted and a pass ran to its end
C8_Witness ==
    /\ faceApi = "failed"
    /\ state.webcamActive
    /\ lastOp.op = "analyzeColors" /\ lastOp.outcome = "done"
    /\ lastOp.eyeRegion = [x |-> 224, y |-> 144, w |-> 192, h |-> 48]

\* C9: an iteration whose detector call throws appends no entry and leaves
\* lastFaceDetection, gazeDirection and the colour labels as they were, and
\* it schedules the next poll, whose detectFace call invokes the detector
\* again.
C9_DetectorErrorIsSilent ==
    /\ [][lastOp'.op = "detectorError" =>
            /\ AppendedEntries = <<>>
            /\ state' = state
            /\ elements' = elements
            /\ detectLoop' = "timeout"
         ]_vars
    /\ [](detectLoop = "timeout" => detectFace(World) = "detecting")

\* the only completed detector call threw, and the detector has been invoked
\* again
C9_Witness ==
    /\ used.polls = 1 /\ used.faces = 0
    /\ elements.userGaze # "FACE NOT DETECTED"
    /\ detectLoop = "detecting"
    /\ lastOp.op = "detectFace"

\* the camera request was made and rejected
CameraWasRejected == media \in {"microphone", "done"} /\ video = "none"

\* C10 (as stated): the rejected camera request appends exactly one entry,
\* state.webcamActive remains false and the page goes on tracking behaviour.
C10_RejectionAppendsOneEntry ==
    /\ [][lastOp'.op = "cameraRejected" =>
            /\ Len(AppendedEntries) = 1
            /\ ~state'.webcamActive
         ]_vars
    /\ [](CameraWasRejected => ~state.webcamActive /\ page = "ready")

\* C10 (amended): the rejected camera request appends exactly one CAMERA
\* entry for the failure (exhibition_js_v2.js nothing else; the older script,
\* through denyCamera, one SYSTEM entry after it), state.webcamActive remains
\* false, no visual analysis is ever started, and the page goes on tracking
\* behaviour.
C10_RejectionAppendsOneCameraEntry ==
    /\ [][lastOp'.op = "cameraRejected" =>
            /\ Len(OfType(AppendedEntries, "CAMERA")) = 1
            /\ AppendedEntries[1].type = "CAMERA"
            /\ Len(AppendedEntries) = IF script = "v2" THEN 1 ELSE 2
            /\ \A i \in 2..Len(AppendedEntries) : AppendedEntries[i].type = "SYSTEM"
            /\ ~state'.webcamActive
         ]_vars
    /\ [](CameraWasRejected =>
            /\ ~state.webcamActive
            /\ page = "ready"
            /\ detectLoop = "off" /\ colorIntervals = 0
            /\ ~state.detectionCanvas.created)

\* after the rejection a click is still tracked
C10_Witness ==
    /\ CameraWasRejected
    /\ lastOp.op = "click"
    /\ state.clicks = 2
    /\ state.observations[Len(state.observations)].type = "CLICK"
    /\ Len(OfType(state.observations, "CAMERA")) = 1

ComputedLabel == [eyeColor |-> "eye", hairColor |-> "hair", backgroundColor |-> "background"]

\* C12: every read-compare-write of a last-value field happens within one
\* turn: a step that changes state.gazeDirection is the detection callback
\* that computed the direction and compared it with the value the field had
\* when that callback began, a step that changes a colour label is the pass
\* that computed that label, and while detectFace is suspended in its await
\* no other callback changes state.gazeDirection or state.lastFaceDetection,
\* the fields the resumed callback reads and writes.
C12_TurnsAreAtomic ==
    [][/\ (detectLoop = "detecting" /\ detectLoop' = "detecting") =>
             /\ state'.gazeDirection = state.gazeDirection
             /\ state'.lastFaceDetection = state.lastFaceDetection
       /\ state'.gazeDirection # state.gazeDirection =>
             /\ detectLoop = "detecting" /\ detectLoop' = "timeout"
             /\ lastOp'.op = "detectorResult"
             /\ lastOp'.direction # state.gazeDirection
             /\ state'.gazeDirection =
                   (IF lastOp'.direction = "" THEN "CENTER" ELSE lastOp'.direction)
       /\ \A c \in DOMAIN ComputedLabel :
             state'[c] # state[c] =>
                /\ lastOp'.op = "analyzeColors"
                /\ lastOp'[ComputedLabel[c]] = state'[c]
                /\ detectLoop' = detectLoop]_vars

\* detectFace is suspended in its await after an earlier callback stored
\* the direction LEFT, and a complete colour pass has just run meanwhile
C12_Witness ==
    /\ detectLoop = "detecting"
    /\ state.gazeDirection = "LEFT"
    /\ lastOp.op = "analyzeColors" /\ lastOp.outcome = "done"
    /\ state.eyeColor # NULL

\* the turns of the behaviour-tracking handlers
TrackingOps == {"mousemove", "click", "scroll", "keydown", "visibilitychange", "resize"}

\* C13: state.lastFaceDetection changes only in the detection callback that
\* found a face, to that face; a colour pass and a behaviour-tracking handler
\* leave lastFaceDetection and gazeDirection as they were, and a detection
\* callback leaves eyeColor, hairColor and backgroundColor as they were.
C13_SingleWriter ==
    [][/\ state'.lastFaceDetection # state.lastFaceDetection =>
             /\ lastOp'.op = "detectorResult"
             /\ lastOp'.face # NoFace
             /\ state'.lastFaceDetection = lastOp'.face
       /\ lastOp'.op \in {"analyzeColors"} \cup TrackingOps =>
             /\ state'.lastFaceDetection = state.lastFaceDetection
             /\ state'.gazeDirection = state.gazeDirection
       /\ lastOp'.op \in {"detectorResult", "detectorError", "detectFace"} =>
             /\ state'.eyeColor = state.eyeColor
             /\ state'.hairColor = state.hairColor
             /\ state'.backgroundColor = state.backgroundColor]_vars

\* a complete colour pass, then a detection that stored a face looking LEFT,
\* or that face stored and then a tracked input or a complete pass
C13_Witness ==
    /\ state.lastFaceDetection # NoFace /\ state.gazeDirection = "LEFT"
    /\ \/ lastOp.op = "detectorResult" /\ state.hairColor # NULL
       \/ lastOp.op \in TrackingOps
       \/ lastOp.op = "analyzeColors" /\ lastOp.outcome = "done"

\* C14: in a pass that sampled the hair with a detection stored, the hair
\* rectangle ends at or above the top edge of the stored face box.
C14_HairSampleAboveFace ==
    (/\ lastOp.op = "analyzeColors"
     /\ lastOp.outcome \in {"hair", "background", "done"}
     /\ state.lastFaceDetection # NoFace) =>
        lastOp.hairRegion.y + lastOp.hairRegion.h
            <= Faces[state.lastFaceDetection].box.y

\* the values rgbToHsl returns for a colour, and their comparisons with a
\* threshold pn/pd or a number of degrees
HslOf(color) == rgbToHsl(color.r, color.g, color.b, color.nan)
LBelow(hsl, pn, pd) == FracLt(hsl.ln, hsl.ld, pn, pd)
LAbove(hsl, pn, pd) == FracGt(hsl.ln, hsl.ld, pn, pd)
SBelow(hsl, pn, pd) == FracLt(hsl.sn, hsl.sd, pn, pd)
SAbove(hsl, pn, pd) == FracGt(hsl.sn, hsl.sd, pn, pd)
HBelow(hsl, deg) == FracLt(hsl.hn, hsl.hd, deg, 1)
HWithin(hsl, lo, hi) == ~FracLt(hsl.hn, hsl.hd, lo, 1) /\ ~FracGt(hsl.hn, hsl.hd, hi, 1)

\* each classifier as its list of rules <<condition, label>>, in order
EyeRules(color) ==
    LET hsl == HslOf(color)
    IN  << <<LBelow(hsl, 20, 100), "DARK BROWN">>,
           <<SBelow(hsl, 15, 100) /\ LBelow(hsl, 4, 10), "DARK GRAY">>,
           <<SBelow(hsl, 15, 100), "GRAY">>,
           <<HWithin(hsl, 180, 260) /\ LBelow(hsl, 4, 10), "DARK BLUE">>,
           <<HWithin(hsl, 180, 260) /\ LAbove(hsl, 6, 10), "LIGHT BLUE">>,
           <<HWithin(hsl, 180, 260), "BLUE">>,
           <<HWithin(hsl, 80, 160) /\ 10 * color.b > 7 * color.g, "HAZEL">>,
           <<HWithin(hsl, 80, 160), "GREEN">>,
           <<HWithin(hsl, 20, 50) /\ LAbove(hsl, 5, 10), "AMBER">>,
           <<HWithin(hsl, 20, 50) /\ LAbove(hsl, 35, 100), "LIGHT BROWN">>,
           <<TRUE, "BROWN">> >>

HairRules(color) ==
    LET hsl == HslOf(color)
    IN  << <<LBelow(hsl, 15, 100), "BLACK">>,
           <<LBelow(hsl, 25, 100), "DARK BROWN">>,
           <<LAbove(hsl, 7, 10) /\ SBelow(hsl, 3, 10), "GRAY/WHITE">>,
           <<LAbove(hsl, 6, 10), "BLONDE">>,
           <<HWithin(hsl, 0, 30) /\ SAbove(hsl, 3, 10), "RED/AUBURN">>,
           <<LBelow(hsl, 4, 10), "BROWN">>,
           <<TRUE, "LIGHT BROWN">> >>

BackgroundRules(color) ==
    LET hsl == HslOf(color)
    IN  << <<SBelow(hsl, 1, 10) /\ LBelow(hsl, 3, 10), "DARK">>,
           <<SBelow(hsl, 1, 10) /\ LAbove(hsl, 7, 10), "LIGHT">>,
           <<SBelow(hsl, 1, 10), "NEUTRAL">>,
           <<HBelow(hsl, 30), "WARM TONES">>,
           <<HBelow(hsl, 90), "YELLOW/GREEN">>,
           <<HBelow(hsl, 150), "GREEN/CYAN">>,
           <<HBelow(hsl, 210), "BLUE">>,
           <<HBelow(hsl, 270), "PURPLE">>,
           <<HBelow(hsl, 330), "PINK/MAGENTA">>,
           <<TRUE, "RED/WARM">> >>

\* the rules whose condition holds, and the label of the first of them
Matching(rules) == {i \in 1..Len(rules) : rules[i][1]}
FirstMatch(rules) ==
    rules[CHOOSE i \in Matching(rules) : \A j \in Matching(rules) : i <= j][2]
LabelsOf(rules) == {rules[i][2] : i \in 1..Len(rules)}

EyeColorTable(hsl, color) ==
    IF LBelow(hsl, 20, 100) THEN "DARK BROWN"
    ELSE IF SBelow(hsl, 15, 100)
         THEN (IF LBelow(hsl, 4, 10) THEN "DARK GRAY" ELSE "GRAY")
    ELSE IF HWithin(hsl, 180, 260)
         THEN (IF LBelow(hsl, 4, 10) THEN "DARK BLUE"
               ELSE IF LAbove(hsl, 6, 10) THEN "LIGHT BLUE" ELSE "BLUE")
    ELSE IF HWithin(hsl, 80, 160)
         THEN (IF 10 * color.b > 7 * color.g THEN "HAZEL" ELSE "GREEN")
    ELSE IF HWithin(hsl, 20, 50)
         THEN (IF LAbove(hsl, 5, 10) THEN "AMBER"
               ELSE IF LAbove(hsl, 35, 100) THEN "LIGHT BROWN" ELSE "BROWN")
    ELSE "BROWN"

HairColorTable(hsl) ==
    IF LBelow(hsl, 15, 100) THEN "BLACK"
    ELSE IF LBelow(hsl, 25, 100) THEN "DARK BROWN"
    ELSE IF LAbove(hsl, 7, 10) /\ SBelow(hsl, 3, 10) THEN "GRAY/WHITE"
    ELSE IF LAbove(hsl, 6, 10) THEN "BLONDE"
    ELSE IF HWithin(hsl, 0, 30) /\ SAbove(hsl, 3, 10) THEN "RED/AUBURN"
    ELSE IF LBelow(hsl, 4, 10) THEN "BROWN"
    ELSE "LIGHT BROWN"

\* C17: for every sampled colour classifyHairColor returns the label the
\* ordered table gives for the values rgbToHsl returns; (20,20,20) is BLACK
\* and (230,230,230) is GRAY/WHITE.
C17_HairColorFollowsTable ==
    lastOp.op = "classified" =>
       /\ lastOp.hair = HairColorTable(HslOf(lastOp.color))
       /\ lastOp.color = Rgb(20, 20, 20) => lastOp.hair = "BLACK"
       /\ lastOp.color = Rgb(230, 230, 230) => lastOp.hair = "GRAY/WHITE"

\* the light grey (230,230,230) has been classified
C17_Witness ==
    /\ lastOp.op = "classified"
    /\ lastOp.color = Rgb(230, 230, 230)
    /\ lastOp.hair = "GRAY/WHITE"

\* the names classifyBackgroundColor gives by hue
HueBucketNames ==
    {"WARM TONES", "YELLOW/GREEN", "GREEN/CYAN", "BLUE", "PURPLE", "PINK/MAGENTA",
     "RED/WARM"}

\* the brightness bucket for the sum of the three averaged channels
BrightnessBucket(sum) ==
    IF sum < 3 * 50 THEN "DARK ENVIRONMENT"
    ELSE IF sum < 3 * 100 THEN "DIM LIGHTING"
    ELSE IF sum < 3 * 180 THEN "NORMAL LIGHTING"
    ELSE "BRIGHT ENVIRONMENT"

\* the colour names the claim allows for an averaged colour
BackgroundNames(hsl) ==
    IF SBelow(hsl, 1, 10)
    THEN {IF LBelow(hsl, 3, 10) THEN "DARK"
          ELSE IF LAbove(hsl, 7, 10) THEN "LIGHT" ELSE "NEUTRAL"}
    ELSE HueBucketNames

\* C18: the background label of every sampled region is a colour name, " / "
\* and the brightness bucket of the mean of the three averaged channels; the
\* name is DARK, LIGHT or NEUTRAL by lightness when the saturation is below
\* 0.1 and a hue bucket otherwise; a uniform black region is labelled
\* "DARK / DARK ENVIRONMENT".
C18_BackgroundLabel ==
    lastOp.op = "classified" =>
       LET average == getDominantColor(lastOp.region)
           bucket == BrightnessBucket(average.r + average.g + average.b)
       IN  /\ \E name \in BackgroundNames(HslOf(average)) :
                 lastOp.background = name \o " / " \o bucket
           /\ lastOp.region = RegionOf(Rgb(0, 0, 0), Rgb(0, 0, 0)) =>
                 lastOp.background = "DARK / DARK ENVIRONMENT"

\* a uniform black region has been labelled
C18_Witness ==
    /\ lastOp.op = "classified"
    /\ lastOp.region = RegionOf(Rgb(0, 0, 0), Rgb(0, 0, 0))
    /\ lastOp.background = "DARK / DARK ENVIRONMENT"

\* the label for a nose dx, dy pixels from the centre of a box: the offsets
\* dx / width and dy / height against 0.05 and 0.1
GazeLabel(dx, dy, box) ==
    LET horizontal == IF 20 * dx < -box.width THEN "LEFT"
                      ELSE IF 20 * dx > box.width THEN "RIGHT"
                      ELSE "CENTER"
        vertical == IF 10 * dy < -box.height THEN "UP-"
                    ELSE IF 10 * dy > box.height THEN "DOWN-"
                    ELSE ""
    IN  vertical \o horizontal

GazeLabels == {vertical \o horizontal : vertical \in {"", "UP-", "DOWN-"},
                                        horizontal \in {"LEFT", "CENTER", "RIGHT"}}

\* C20: in every reachable state state.gazeDirection is one of the nine
\* labels, a vertical prefix or none followed by LEFT, CENTER or RIGHT, and
\* every GAZE entry of the log reads 'Subject looking ' and one of them.
C20_GazeIsOneOfNine ==
    /\ state.gazeDirection \in GazeLabels
    /\ \A i \in 1..Len(GazeEntries) :
          GazeEntries[i].message \in {"Subject looking " \o label : label \in GazeLabels}

\* a detection stored a direction with a vertical prefix and logged it
C20_Witness ==
    /\ lastOp.op = "detectorResult" /\ lastOp.face # NoFace
    /\ state.gazeDirection = "DOWN-CENTER"
    /\ \E i \in 1..Len(GazeEntries) :
          GazeEntries[i].message = "Subject looking DOWN-CENTER"

\* C21: for every sampled RGB triple rgbToHsl returns a hue in [0, 360), a
\* saturation in [0, 1] and a lightness in [0, 1] that is half the sum of
\* the largest and the smallest channel over 255; three equal channels give
\* hue 0 and saturation 0, so black is (0, 0, 0) and white is (0, 0, 1).
C21_HslInRange ==
    lastOp.op = "classified" =>
       LET color == lastOp.color
           hsl == lastOp.hsl
           largest == Max(color.r, Max(color.g, color.b))
           smallest == Min(color.r, Min(color.g, color.b))
       IN  /\ ~hsl.nan
           /\ hsl.hd > 0 /\ hsl.sd > 0 /\ hsl.ld > 0
           /\ 0 <= hsl.hn /\ hsl.hn < 360 * hsl.hd
           /\ 0 <= hsl.sn /\ hsl.sn <= hsl.sd
           /\ 0 <= hsl.ln /\ hsl.ln <= hsl.ld
           /\ 2 * 255 * hsl.ln = (largest + smallest) * hsl.ld
           /\ largest = smallest => hsl.hn = 0 /\ hsl.sn = 0
           /\ color = Rgb(0, 0, 0) => hsl.hn = 0 /\ hsl.sn = 0 /\ hsl.ln = 0
           /\ color = Rgb(255, 255, 255) =>
                 hsl.hn = 0 /\ hsl.sn = 0 /\ hsl.ln = hsl.ld

\* white converted: hue 0, saturation 0, lightness 1
C21_Witness ==
    /\ lastOp.op = "classified"
    /\ lastOp.color = Rgb(255, 255, 255)
    /\ lastOp.hsl.hn = 0 /\ lastOp.hsl.sn = 0 /\ lastOp.hsl.ln = lastOp.hsl.ld

\* the sum of channel c (1 = R, 2 = G, 3 = B) over the first count pixels
RECURSIVE ChannelTotal(_, _, _)
ChannelTotal(pixels, count, c) ==
    IF count = 0 THEN 0
    ELSE pixels[4 * (count - 1) + c] + ChannelTotal(pixels, count - 1, c)

\* v is total / count rounded to the nearest integer, a half going up
NearestTo(v, total, count) ==
    /\ 2 * count * v - count <= 2 * total
    /\ 2 * total < 2 * count * v + count

\* C22: for every sampled buffer getDominantColor returns per channel the
\* mean over all pixels rounded to the nearest integer, a value in 0..255
\* in which the alpha bytes play no part; a buffer of equal colours returns
\* that colour.
C22_AverageIsRoundedMean ==
    lastOp.op = "averaged" =>
       LET pixels == lastOp.pixels
           count == Len(pixels) \div 4
           color == lastOp.color
       IN  /\ ~color.nan
           /\ NearestTo(color.r, ChannelTotal(pixels, count, 1), count)
           /\ NearestTo(color.g, ChannelTotal(pixels, count, 2), count)
           /\ NearestTo(color.b, ChannelTotal(pixels, count, 3), count)
           /\ {color.r, color.g, color.b} \subseteq 0..255
           /\ (\A k \in 1..count : \A c \in 1..3 : pixels[4 * (k - 1) + c] = pixels[c])
                 => color = [nan |-> FALSE, r |-> pixels[1], g |-> pixels[2],
                             b |-> pixels[3]]

\* two pixels of different colour and different alpha whose red mean is a
\* half, rounded up
C22_Witness ==
    /\ lastOp.op = "averaged"
    /\ lastOp.pixels = <<1, 2, 4, 0, 0, 0, 0, 255>>
    /\ lastOp.color = [nan |-> FALSE, r |-> 1, g |-> 1, b |-> 2]

BasicModeEntries ==
    Len(SelectSeq(state.observations,
                  LAMBDA entry : entry.message = "Using basic color analysis mode"))

\* C24: the metadata handler starts one colour timer and either the detection
\* loop, if state.faceApiLoaded is set at that turn, or basic analysis, which
\* it announces; no later turn, a model load included, starts the loop of a
\* playing camera that has none, so state.lastFaceDetection stays null there
\* and every colour pass samples the fixed regions.
C24_ModeChosenAtMetadata ==
    /\ [][lastOp'.op = "loadedmetadata" =>
            /\ colorIntervals = 0 /\ colorIntervals' = 1
            /\ detectLoop = "off"
            /\ state.faceApiLoaded <=> detectLoop' # "off"
            /\ ~state.faceApiLoaded <=> BasicModeEntries' = 1]_vars
    /\ [][(video = "playing" /\ detectLoop = "off") =>
            /\ detectLoop' = "off"
            /\ colorIntervals' = colorIntervals]_vars
    /\ [](detectLoop = "off" => state.lastFaceDetection = NoFace)
    /\ [][(/\ lastOp'.op = "analyzeColors" /\ lastOp'.outcome # "skipped"
           /\ detectLoop = "off") =>
            /\ lastOp'.eyeRegion = eyeFallbackRegion(state.detectionCanvas)
            /\ lastOp'.outcome # "eye" =>
                   lastOp'.hairRegion = hairFallbackRegion(state.detectionCanvas)]_vars

\* the models finished loading after the metadata event, and a colour pass
\* ran on the fixed regions with no detection loop
C24_Witness ==
    /\ state.faceApiLoaded /\ video = "playing" /\ detectLoop = "off"
    /\ BasicModeEntries = 1
    /\ lastOp.op = "analyzeColors" /\ lastOp.outcome = "done"
    /\ lastOp.eyeRegion = eyeFallbackRegion(state.detectionCanvas)
    /\ state.lastFaceDetection = NoFace

\* C25: detectFace runs only when no inference of the loop is pending: an
\* inference begins in the metadata handler or in a timer's call to
\* detectFace, ends only when the detector's promise resolves or rejects,
\* which schedules the next call, and is left pending by every colour pass
\* and every input handler that runs meanwhile.
C25_OneInferenceInFlight ==
    [][/\ lastOp'.op = "detectFace" => detectLoop \in {"raf", "timeout"}
       /\ lastOp'.op = "loadedmetadata" => detectLoop = "off"
       /\ (detectLoop # "detecting" /\ detectLoop' = "detecting") =>
             lastOp'.op \in {"detectFace", "loadedmetadata"}
       /\ (detectLoop = "detecting" /\ detectLoop' # "detecting") =>
             /\ lastOp'.op \in {"detectorResult", "detectorError"}
             /\ detectLoop' = "timeout"
       /\ lastOp'.op \in {"detectorResult", "detectorError"} =>
             detectLoop = "detecting" /\ detectLoop' = "timeout"
       /\ (detectLoop = "detecting" /\ lastOp'.op \in {"analyzeColors"} \cup TrackingOps) =>
             detectLoop' = "detecting"]_vars

\* the first inference still pending after a colour pass and then an input
\* handler ran
C25_Witness ==
    /\ detectLoop = "detecting" /\ used.polls = 0
    /\ used.passes >= 1 /\ lastOp.op \in TrackingOps

\* the messages of the 'AI' entries that report no colour: the model load,
\* the consent, the analysis mode and the random observation
OtherAIMessages ==
    {"Face detection models loaded", "Face detection unavailable - using fallback",
     "Face detection unavailable - using fallback analysis",
     "Initiating facial analysis protocols...", "Using basic color analysis mode",
     "Visual analysis processing..."}

AIEntries == OfType(state.observations, "AI")

\* the eye, hair and environment entries of the history
ColourEntries == SelectSeq(AIEntries, LAMBDA entry : entry.message \notin OtherAIMessages)

\* C26: while state.webcamActive is false the three colour labels and
\* lastFaceDetection are null, gazeDirection is 'CENTER', the history has no
\* GAZE entry and no eye, hair or environment entry; and no turn sets
\* webcamActive back to false.
C26_NothingSeenWithoutCamera ==
    /\ [](~state.webcamActive =>
            /\ state.eyeColor = NULL /\ state.hairColor = NULL
            /\ state.backgroundColor = NULL
            /\ state.lastFaceDetection = NoFace
            /\ state.gazeDirection = "CENTER"
            /\ GazeEntries = <<>>
            /\ ColourEntries = <<>>)
    /\ [][state.webcamActive => state'.webcamActive]_vars

\* the camera request was rejected with the models loaded, and an input
\* event followed
C26_Witness ==
    /\ ~state.webcamActive /\ media = "done" /\ state.faceApiLoaded
    /\ lastOp.op \in TrackingOps
    /\ Len(AIEntries) = 1

\* C27: the ticker reads 'MEDIA ACCESS GRANTED' only with the camera or the
\* microphone active, and requestMediaAccess goes on to request the
\* microphone whether the camera request resolved or rejected.
C27_GrantedOnlyIfGranted ==
    /\ elements.ticker = "MEDIA ACCESS GRANTED" =>
          state.webcamActive \/ state.microphoneActive
    /\ (script = "v2" /\ lastOp.op \in {"cameraGranted", "cameraRejected"}) =>
          media = "microphone"

ContradictoryLabels ==
    {"DARK / BRIGHT ENVIRONMENT", "LIGHT / DARK ENVIRONMENT", "LIGHT / DIM LIGHTING"}

\* C28: for every sampled region the background label is none of 'DARK /
\* BRIGHT ENVIRONMENT', 'LIGHT / DARK ENVIRONMENT' and 'LIGHT / DIM
\* LIGHTING': the colour name and the brightness bucket come from the same
\* averaged colour.
C28_NoContradictoryLabel ==
    lastOp.op = "classified" => lastOp.background \notin ContradictoryLabels

\* a light grey beside black: the average is a neutral grey in dim light
C28_Witness ==
    /\ lastOp.op = "classified"
    /\ lastOp.color = Rgb(180, 180, 180)
    /\ lastOp.name = "LIGHT"
    /\ lastOp.background = "NEUTRAL / DIM LIGHTING"

Counters == <<state.mouseMovements, state.clicks, state.scrolls, state.keystrokes>>

\* C29: the history holds one MOUSE entry for every fifty mouse movements,
\* one SCROLL entry for every five scrolls and one CLICK entry for every
\* click; a mouse move, a click and a scroll each add one to their own
\* counter and leave the others.
C29_CountersDriveSampling ==
    /\ [](/\ Len(OfType(state.observations, "MOUSE")) = state.mouseMovements \div 50
          /\ Len(OfType(state.observations, "SCROLL")) = state.scrolls \div 5
          /\ Len(OfType(state.observations, "CLICK")) = state.clicks)
    /\ [][/\ lastOp'.op = "mousemove" =>
                Counters' = [Counters EXCEPT ![1] = @ + 1]
          /\ lastOp'.op = "click" =>
                Counters' = [Counters EXCEPT ![2] = @ + 1]
          /\ lastOp'.op = "scroll" =>
                Counters' = [Counters EXCEPT ![3] = @ + 1]
          /\ lastOp'.op \notin TrackingOps => Counters' = Counters]_vars

\* fifty mouse movements, five scrolls and a click, each with its entry
C29_Witness ==
    /\ state.mouseMovements = 50 /\ Len(OfType(state.observations, "MOUSE")) = 1
    /\ state.scrolls = 5 /\ Len(OfType(state.observations, "SCROLL")) = 1
    /\ state.clicks = 1 /\ Len(OfType(state.observations, "CLICK")) = 1

\* the characters of an address up to its second dot, the dot excluded
RECURSIVE UpToSecondDot(_, _)
UpToSecondDot(ip, dots) ==
    IF ip = <<>> THEN <<>>
    ELSE IF Head(ip) = "." /\ dots = 1 THEN <<>>
    ELSE <<Head(ip)>> \o UpToSecondDot(Tail(ip), IF Head(ip) = "." THEN dots + 1 ELSE dots)

RECURSIVE TextOf(_)
TextOf(chars) == IF chars = <<>> THEN "" ELSE Head(chars) \o TextOf(Tail(chars))

\* what the page may show of an address whose characters up to the second
\* dot are chars: them, 'undefined' for a second part that does not exist,
\* and the mask
MaskedText(chars) ==
    TextOf(chars)
        \o (IF \E i \in DOMAIN chars : chars[i] = "." THEN "" ELSE ".undefined")
        \o ".XXX.XXX"

NetworkEntries == OfType(state.observations, "NETWORK")

\* C30: for every sampled address the IP text of the page, and the NETWORK
\* entry of the older script, is determined by the address's characters up
\* to its second dot: the first two dot-separated parts and '.XXX.XXX'.
\* Nothing after the second dot is shown.
C30_AddressMasked ==
    (lastOp.op = "ipShown" /\ lastOp.data.ip # <<>>) =>
       LET shown == MaskedText(UpToSecondDot(lastOp.data.ip, 0))
       IN  /\ elements.userIP = shown
           /\ script = "v1" =>
                 /\ Len(NetworkEntries) = 1
                 /\ NetworkEntries[1].message = "IP address detected: " \o shown
           /\ script = "v2" => NetworkEntries = <<>>

\* an address of three parts shown with its third part masked
C30_Witness ==
    /\ lastOp.op = "ipShown"
    /\ lastOp.data.ip = <<"1", ".", "2", ".", "1">>
    /\ elements.userIP = "1.2.XXX.XXX"

=============================================================================
